---- MODULE Spec2Model ----
(***************************************************************************)
(* Model of the controller package of ps2-map-controller:                  *)
(*   - controller/_cache.py       tlru_cache (time aware cache decorator)   *)
(*   - controller/_dispatcher.py  EventDispatcher                           *)
(*   - controller/handlers/_base_ownership.py  BaseOwnershipController      *)
(*                                                                         *)
(* The specifications of the module:                                       *)
(*   SpecCache     the table logic of tlru_cache.wrapper, with calls whose  *)
(*                 misses may be in flight at the same time                 *)
(*   SpecKey       the first lines of tlru_cache.wrapper: the key built    *)
(*                 from the arguments and its lookup in the table           *)
(*   SpecDispatch  EventDispatcher.add_handler / _dispatch on event lists   *)
(*   SpecHandle    BaseOwnershipController.handle on one batch              *)
(*   SpecRun       EventDispatcher.run() polling the event buffer, with     *)
(*                 handlers that may raise; FairRun adds its fairness       *)
(*   SpecMain      controller/__main__.py: main() around run(); FairMain    *)
(*                 adds its fairness                                        *)
(*   SpecContinent controller/_map.py: process_base_control_blips on a     *)
(*                 list of blips                                           *)
(*   SpecGroup     controller/_map.py: MapHandler._group_blips             *)
(*   SpecServer    controller/_server.py: BackendServer.__init__ and the   *)
(*                 dispatch of DatabaseHandler.fetch_blips                 *)
(*   SpecHex       apl_backend/_hexgen.py: _tile_to_point on one tile       *)
(*   SpecReload    BaseOwnershipController with handle() called at any      *)
(*                 moment of an initialisation; SpecOverlap lets the        *)
(*                 initialisations overlap                                  *)
(*   Spec          the polling loop feeding BaseOwnershipController, with   *)
(*                 its asynchronous (re-)initialisation                     *)
(***************************************************************************)
EXTENDS Integers, Sequences, FiniteSets, TLC

\* ------------------------------------------------------------------------
\* Bounds of the model
\* ------------------------------------------------------------------------
\* number of distinct argument tuples a cached lookup is called with
NumKeys == 2
\* number of calls of the cached lookup in one behaviour
MaxCalls == 3
\* last tick of the clock read by time.time()
MaxTime == 2
\* largest maxsize the decorator is configured with
MaxMaxsize == 1
\* the ttl the decorator is configured with, in ticks of the clock
Ttl == 1
\* largest number of positional arguments of a cached lookup
MaxArgs == 2
\* largest argument value of a cached lookup
MaxArg == 2
\* number of calls of the cached lookup in one behaviour of SpecKey
MaxKeyCalls == 2

VARIABLES
    \* --- tlru_cache ---
    maxsize,      \* decorator argument
    ttl,          \* decorator argument
    clock,        \* what time.time() returns
    cache,        \* the OrderedDict, as the sequence of its items in order
    calls,        \* one record per call of wrapper(), in call order
    lastTruncate, \* the last popitem(): the key inserted and the key evicted
    \* --- EventDispatcher ---
    _handlers,    \* EventDispatcher._handlers
    events,       \* the list of events handed to _dispatch()
    handled,      \* the handle() calls of the last _dispatch(), in order
    pc,           \* position of the dispatcher
    error,        \* the exception raised inside run(), "none" if none was
    buffer,       \* the rows of the event buffer table, in table order
    \* --- BaseOwnershipController ---
    _ownership_map,  \* server_id -> base_id -> (faction, timestamp)
    _initializing,   \* BaseOwnershipController._initializing
    inits,           \* the _initialize() coroutines started so far
    \* --- apl_backend/_hexgen.py ---
    hex,             \* a call of _tile_to_point: arguments, position, result
    \* --- controller/__main__.py, _map.py, _server.py, _db.py ---
    main,            \* main(): position, what it logged, pool.close() calls
    _base_owners,    \* ContinentInstance._base_owners
    blip_listeners,  \* DatabaseHandler.blip_listeners
    call             \* a call of a method of _map.py or _server.py

cacheVars == <<maxsize, ttl, cache, calls, lastTruncate>>

dispatchVars == <<_handlers, events, handled, pc, error>>

ownershipVars == <<buffer, _ownership_map, _initializing, inits>>

appVars == <<main, _base_owners, blip_listeners, call>>

vars == <<maxsize, ttl, clock, cache, calls, lastTruncate,
          _handlers, events, handled, pc, error,
          buffer, _ownership_map, _initializing, inits, hex,
          main, _base_owners, blip_listeners, call>>

\* the empty dict
EmptyDict == [x \in {} |-> 0]

\* the parts of the state a specification does not use
CacheUnused ==
    /\ maxsize = 0
    /\ ttl = 1
    /\ cache = <<>>
    /\ calls = <<>>
    /\ lastTruncate = [inserted |-> 0, evicted |-> 0]

\* no call of _tile_to_point
HexUnused == hex = [pc |-> "none"]

\* main() is not running, no ContinentInstance, no BackendServer
AppUnused ==
    /\ main = [pc |-> "none"]
    /\ _base_owners = EmptyDict
    /\ blip_listeners = EmptyDict
    /\ call = [pc |-> "none"]

OwnershipUnused ==
    /\ buffer = <<>>
    /\ _ownership_map = EmptyDict
    /\ _initializing = TRUE
    /\ inits = <<>>

\* ------------------------------------------------------------------------
\* controller/_cache.py
\* ------------------------------------------------------------------------
Keys == 1..NumKeys

NoTruncate == [inserted |-> 0, evicted |-> 0]

\* position of key in the OrderedDict, 0 when absent
KeyIndex(c, key) ==
    IF \E i \in 1..Len(c) : c[i].key = key
    THEN CHOOSE i \in 1..Len(c) : c[i].key = key
    ELSE 0

\* key in cache
Contains(c, key) == KeyIndex(c, key) # 0

\* "if key in cache: ... if last_access + ttl > now: return value"
IsHit(c, key, now) ==
    /\ Contains(c, key)
    /\ c[KeyIndex(c, key)].last_access + ttl > now

\* cache[key] = value, now  (an existing key keeps its position in the
\* OrderedDict, a new key goes to the end)
SetItem(c, key, value, now) ==
    LET item == [key |-> key, value |-> value, last_access |-> now]
    IN  IF Contains(c, key)
        THEN [c EXCEPT ![KeyIndex(c, key)] = item]
        ELSE Append(c, item)

\* OrderedDict.popitem(): last=True, removes the item at the end
PopItem(c) == SubSeq(c, 1, Len(c) - 1)

\* Truncate with the test off by one: the table may grow to maxsize + 1
TruncateOffByOne(c) == IF Len(c) > maxsize + 1 THEN PopItem(c) ELSE c

\* "if len(cache) > maxsize: cache.popitem()"
Truncate(c) == IF Len(c) > maxsize THEN PopItem(c) ELSE c

\* the calls that have completed (returned or raised)
Done == {i \in 1..Len(calls) : calls[i].pc # "await"}

\* argument tuples are interchangeable, so the n-th distinct one to be used
\* in a behaviour is the one named n
FreshKeyInOrder(key) ==
    \/ \E i \in 1..Len(calls) : calls[i].key = key
    \/ key = Cardinality({calls[i].key : i \in 1..Len(calls)}) + 1

\* number of invocations of the wrapped function so far: one per miss
Invocations == Cardinality({i \in 1..Len(calls) : ~calls[i].hit})

InitCache ==
    /\ maxsize \in 0..MaxMaxsize
    /\ ttl = Ttl
    /\ clock = 0
    /\ cache = <<>>
    /\ calls = <<>>
    /\ lastTruncate = NoTruncate
    /\ _handlers = <<>>
    /\ events = <<>>
    /\ handled = <<>>
    /\ pc = "idle"
    /\ error = "none"
    /\ OwnershipUnused
    /\ HexUnused
    /\ AppUnused

\* time passes between two reads of time.time()
Tick ==
    /\ clock < MaxTime
    /\ clock' = clock + 1
    /\ UNCHANGED <<hex, appVars, cacheVars, dispatchVars, ownershipVars>>

\* wrapper(): the key is in the table and has not expired; the cached value
\* is returned without invoking the wrapped function
WrapperHit(key) ==
    /\ Len(calls) < MaxCalls
    /\ IsHit(cache, key, clock)
    /\ calls' = Append(calls,
          [key |-> key, now |-> clock, pc |-> "returned", hit |-> TRUE,
           value |-> cache[KeyIndex(cache, key)].value,
           donebefore |-> Done, table |-> cache])
    /\ UNCHANGED <<hex, appVars, maxsize, ttl, clock, cache, lastTruncate, dispatchVars, ownershipVars>>

\* wrapper(): cache miss or expired; the wrapped function is invoked and the
\* call is suspended at "await func(*args, **kwargs)"
WrapperMiss(key) ==
    /\ Len(calls) < MaxCalls
    /\ FreshKeyInOrder(key)
    /\ ~IsHit(cache, key, clock)
    /\ calls' = Append(calls,
          [key |-> key, now |-> clock, pc |-> "await", hit |-> FALSE,
           value |-> Invocations + 1,
           donebefore |-> Done, table |-> cache])
    /\ UNCHANGED <<hex, appVars, maxsize, ttl, clock, cache, lastTruncate, dispatchVars, ownershipVars>>

\* the awaited function returns: store (value, now), truncate, return value
FuncReturn(i) ==
    /\ i \in 1..Len(calls)
    /\ calls[i].pc = "await"
    /\ LET stored == SetItem(cache, calls[i].key, calls[i].value, calls[i].now)
       IN  /\ cache' = Truncate(stored)
           /\ lastTruncate' =
                 IF Truncate(stored) # stored
                 THEN [inserted |-> calls[i].key,
                       evicted |-> CHOOSE k \in Keys :
                           /\ Contains(stored, k)
                           /\ ~Contains(Truncate(stored), k)]
                 ELSE NoTruncate
    /\ calls' = [calls EXCEPT ![i].pc = "returned"]
    /\ UNCHANGED <<hex, appVars, maxsize, ttl, clock, dispatchVars, ownershipVars>>

\* StoreFailure memoizing the failed lookup under its key
StoreFailureMemoized(c, key, now) == SetItem(c, key, 0, now)

\* what a failing wrapped function leaves in the table: line 44 is not
\* reached, nothing is stored
StoreFailure(c, key, now) == c

\* the awaited function raises: the exception leaves wrapper() at line 43
FuncRaise(i) ==
    /\ i \in 1..Len(calls)
    /\ calls[i].pc = "await"
    /\ cache' = StoreFailure(cache, calls[i].key, calls[i].now)
    /\ calls' = [calls EXCEPT ![i].pc = "raised"]
    /\ UNCHANGED <<hex, appVars, maxsize, ttl, clock, lastTruncate, dispatchVars, ownershipVars>>

NextCache ==
    \/ Tick
    \/ \E key \in Keys : WrapperHit(key)
    \/ \E key \in Keys : WrapperMiss(key)
    \/ \E i \in 1..MaxCalls : FuncReturn(i)
    \/ \E i \in 1..MaxCalls : FuncRaise(i)

SpecCache == InitCache /\ [][NextCache]_vars

\* --- the key of wrapper(): "key = (args, kwargs)", "if key in cache" ---
\* Python values: int, tuple of values, dict from names to values
IntValue(n) == [type |-> "int", value |-> n]

TupleValue(items) == [type |-> "tuple", items |-> items]

DictValue(d) == [type |-> "dict", items |-> d]

\* hash(v) returns: an int does, a tuple does when each of its items does,
\* a dict never does (TypeError: unhashable type: 'dict')
RECURSIVE Hashable(_)
Hashable(v) ==
    CASE v.type = "int" -> TRUE
      [] v.type = "tuple" -> \A n \in 1..Len(v.items) : Hashable(v.items[n])
      [] v.type = "dict" -> FALSE

\* "key = (args, kwargs)": args is the tuple of the positional arguments,
\* kwargs the dict of the keyword arguments
Key(args, kwargs) == TupleValue(<<TupleValue(args), DictValue(kwargs)>>)

\* the hashable argument values: ints and tuples of ints
ArgValues ==
    {IntValue(n) : n \in 1..MaxArg}
        \union {TupleValue(<<IntValue(n)>>) : n \in 1..MaxArg}

\* *args of a call
ArgTuples ==
    UNION {[1..n -> ArgValues] : n \in 0..MaxArgs}

\* **kwargs of a call: none, or ints under the names "a" and "b"
KwargDicts ==
    UNION {[names -> {IntValue(n) : n \in 1..MaxArg}] :
              names \in SUBSET {"a", "b"}}

InitKey ==
    /\ CacheUnused
    /\ OwnershipUnused
    /\ HexUnused
    /\ AppUnused
    /\ clock = 0
    /\ _handlers = <<>>
    /\ events = <<>>
    /\ handled = <<>>
    /\ pc = "idle"
    /\ error = "none"

\* wrapper(*args, **kwargs) up to the await: "key in cache" hashes the key;
\* when hash() raises, TypeError leaves wrapper() at line 36 and the wrapped
\* function is not invoked; otherwise the table is empty, the call is a miss
\* and is suspended at the await
WrapperKey(args, kwargs) ==
    /\ Len(calls) < MaxKeyCalls
    /\ calls' = Append(calls,
          [args |-> args, kwargs |-> kwargs,
           pc |-> IF Hashable(Key(args, kwargs)) THEN "await" ELSE "raised",
           error |-> IF Hashable(Key(args, kwargs))
                     THEN "none" ELSE "TypeError",
           invoked |-> Hashable(Key(args, kwargs))])
    /\ UNCHANGED <<hex, appVars, maxsize, ttl, clock, cache, lastTruncate,
                   dispatchVars, ownershipVars>>

NextKey == \E args \in ArgTuples : \E kwargs \in KwargDicts :
              WrapperKey(args, kwargs)

SpecKey == InitKey /\ [][NextKey]_vars

\* ------------------------------------------------------------------------
\* controller/events.py and controller/_dispatcher.py
\* ------------------------------------------------------------------------
\* bounds of the dispatcher model
NumServers == 2
NumBases == 1
\* last tick of the clock read by datetime.now()
MaxClock == 2
NumFactions == 2
\* longest list of events handed to one _dispatch()
MaxBatch == 3
\* number of add_handler() calls
MaxHandlers == 3

ServerIds == 1..NumServers
BaseIds == 1..NumBases
FactionIds == 1..NumFactions
Timestamps == 0..MaxClock

\* events.Event: the base dataclass (any event that is not a BaseControl)
Event ==
    [type : {"Event"}, timestamp : Timestamps, server_id : ServerIds,
     continent_id : {1}]

\* events.BaseControl
BaseControl ==
    [type : {"BaseControl"}, timestamp : Timestamps, server_id : ServerIds,
     continent_id : {1}, base_id : BaseIds, old_faction_id : {1},
     new_faction_id : FactionIds]

\* the objects registered as handlers (implementations of abc.EventHandler)
HandlerIds == {"h1", "h2"}

\* AddToGroup that rebinds the key to a new list on every event
AddToGroupOverwrite(groups, k, e) ==
    IF \E i \in 1..Len(groups) : groups[i].key = k
    THEN LET i == CHOOSE n \in 1..Len(groups) : groups[n].key = k
         IN  [groups EXCEPT ![i].items = <<e>>]
    ELSE Append(groups, [key |-> k, items |-> <<e>>])

\* the dict-of-lists built by "try: d[k].append(e) except KeyError: d[k] =
\* [e]", as the sequence of its (key, list) items in insertion order
AddToGroup(groups, k, e) ==
    IF \E i \in 1..Len(groups) : groups[i].key = k
    THEN LET i == CHOOSE n \in 1..Len(groups) : groups[n].key = k
         IN  [groups EXCEPT ![i].items = Append(@, e)]
    ELSE Append(groups, [key |-> k, items |-> <<e>>])

RECURSIVE GroupByType(_)
\* lines 60-65: events_by_type
GroupByType(evs) ==
    IF evs = <<>> THEN <<>>
    ELSE AddToGroup(GroupByType(SubSeq(evs, 1, Len(evs) - 1)),
                    evs[Len(evs)].type, evs[Len(evs)])

\* GroupByServer without the grouping: one batch for all servers
GroupByServerOneBatch(evs) ==
    IF evs = <<>> THEN <<>> ELSE <<[key |-> evs[1].server_id, items |-> evs]>>

RECURSIVE GroupByServer(_)
\* lines 72-77: events_by_server
GroupByServer(evs) ==
    IF evs = <<>> THEN <<>>
    ELSE AddToGroup(GroupByServer(SubSeq(evs, 1, Len(evs) - 1)),
                    evs[Len(evs)].server_id, evs[Len(evs)])

RECURSIVE Flatten(_)
Flatten(seqs) ==
    IF seqs = <<>> THEN <<>> ELSE Head(seqs) \o Flatten(Tail(seqs))

\* HandlerCalls invoking every distinct handler once, at its first position
HandlerCallsOncePerHandler(handlers, server_events) ==
    LET firsts == SelectSeq([h \in 1..Len(handlers) |-> h],
                      LAMBDA h : \A g \in 1..(h - 1) : handlers[g] # handlers[h])
    IN  [n \in 1..Len(firsts) |->
            [index |-> firsts[n], handler |-> handlers[firsts[n]],
             batch |-> server_events]]

\* the handle() calls made for one batch: every handler, in list order
HandlerCalls(handlers, server_events) ==
    [h \in 1..Len(handlers) |->
        [index |-> h, handler |-> handlers[h], batch |-> server_events]]

\* _dispatch(): the sequence of handle() calls it makes
Dispatch(handlers, evs) ==
    LET byType == GroupByType(evs)
        perType(g) ==
            LET byServer == GroupByServer(g.items)
            IN  Flatten([n \in 1..Len(byServer) |->
                            HandlerCalls(handlers, byServer[n].items)])
    IN  Flatten([t \in 1..Len(byType) |-> perType(byType[t])])

RECURSIVE SeqsUpTo(_, _)
\* the sequences over S of length at most n
SeqsUpTo(S, n) ==
    IF n = 0 THEN {<<>>}
    ELSE LET shorter == SeqsUpTo(S, n - 1)
         IN  shorter \cup {Append(q, x) : q \in shorter, x \in S}

\* the events _dispatch() is exercised with
DispatchInputs ==
    {e \in Event \cup BaseControl :
        /\ e.timestamp = 0
        /\ e.type = "BaseControl" => (e.base_id = 1 /\ e.new_faction_id <= 2)}

InitDispatch ==
    /\ CacheUnused
    /\ HexUnused
    /\ AppUnused
    /\ OwnershipUnused
    /\ clock = 0
    /\ _handlers = <<>>
    /\ events \in SeqsUpTo(DispatchInputs, MaxBatch)
    /\ handled = <<>>
    /\ pc = "idle"
    /\ error = "none"

\* EventDispatcher.add_handler()
add_handler(handler) ==
    /\ pc = "idle"
    /\ Len(_handlers) < MaxHandlers
    /\ _handlers' = Append(_handlers, handler)
    /\ UNCHANGED <<hex, appVars, cacheVars, ownershipVars, clock, events, handled, pc, error>>

\* EventDispatcher._dispatch(events)
DispatchEvents ==
    /\ pc = "idle"
    /\ handled' = Dispatch(_handlers, events)
    /\ pc' = "dispatched"
    /\ UNCHANGED <<hex, appVars, cacheVars, ownershipVars, clock, _handlers, events, error>>

NextDispatch ==
    \/ \E handler \in HandlerIds : add_handler(handler)
    \/ DispatchEvents

SpecDispatch == InitDispatch /\ [][NextDispatch]_vars

\* ------------------------------------------------------------------------
\* controller/handlers/_base_ownership.py and EventDispatcher.run()
\* ------------------------------------------------------------------------
\* bounds of the polling loop and of the ownership controller
\* rows held by the event buffer and the last fetch together
MaxEvents == 2
\* _initialize() coroutines in progress at the same time (the one spawned
\* by __init__ and those of reinitialize() calls)
MaxRunning == 1
\* regions listed by one snapshot
MaxRows == 1

\* _fetch_events(min_age=1.0)
min_age == 1

\* the handler main() registers
Controller == "BaseOwnershipController"

\* d[k] = v
Put(d, k, v) == [x \in DOMAIN d \cup {k} |-> IF x = k THEN v ELSE d[x]]

\* ApplyEvents keeping the record a base already has (dict.setdefault)
RECURSIVE ApplyEventsKeepExisting(_, _)
ApplyEventsKeepExisting(owner_map, evs) ==
    IF evs = <<>> THEN owner_map
    ELSE ApplyEventsKeepExisting(
            IF Head(evs).base_id \in DOMAIN owner_map THEN owner_map
            ELSE Put(owner_map, Head(evs).base_id,
                     [faction |-> Head(evs).new_faction_id,
                      timestamp |-> Head(evs).timestamp]),
            Tail(evs))

\* ApplyEvents storing the faction the base is taken from
RECURSIVE ApplyEventsOldFaction(_, _)
ApplyEventsOldFaction(owner_map, evs) ==
    IF evs = <<>> THEN owner_map
    ELSE ApplyEventsOldFaction(
            Put(owner_map, Head(evs).base_id,
                [faction |-> Head(evs).old_faction_id,
                 timestamp |-> Head(evs).timestamp]),
            Tail(evs))

\* ApplyEvents keeping a record that is newer than the event
RECURSIVE ApplyEventsNewerWins(_, _)
ApplyEventsNewerWins(owner_map, evs) ==
    IF evs = <<>> THEN owner_map
    ELSE ApplyEventsNewerWins(
            IF /\ Head(evs).base_id \in DOMAIN owner_map
               /\ owner_map[Head(evs).base_id].timestamp
                      > Head(evs).timestamp
            THEN owner_map
            ELSE Put(owner_map, Head(evs).base_id,
                     [faction |-> Head(evs).new_faction_id,
                      timestamp |-> Head(evs).timestamp]),
            Tail(evs))

\* ApplyEvents dropping the events of a base that has no record
RECURSIVE ApplyEventsKnownBases(_, _)
ApplyEventsKnownBases(owner_map, evs) ==
    IF evs = <<>> THEN owner_map
    ELSE ApplyEventsKnownBases(
            IF Head(evs).base_id \notin DOMAIN owner_map THEN owner_map
            ELSE Put(owner_map, Head(evs).base_id,
                     [faction |-> Head(evs).new_faction_id,
                      timestamp |-> Head(evs).timestamp]),
            Tail(evs))

\* the loop of _set_base_ownership:
\*   owner_map[event.base_id] = event.new_faction_id, event.timestamp
\* (a dict store raises no KeyError: the except branch is never taken)
RECURSIVE ApplyEvents(_, _)
ApplyEvents(owner_map, evs) ==
    IF evs = <<>> THEN owner_map
    ELSE ApplyEvents(Put(owner_map, Head(evs).base_id,
                         [faction |-> Head(evs).new_faction_id,
                          timestamp |-> Head(evs).timestamp]),
                     Tail(evs))

\* _set_base_ownership making an entry for a server the map does not have
_set_base_ownership_creating(map, server_id, evs) ==
    Put(map, server_id,
        ApplyEvents(IF server_id \in DOMAIN map THEN map[server_id]
                    ELSE EmptyDict, evs))

\* _set_base_ownership rebuilding the map with the event's server alone
_set_base_ownership_dropping_others(map, server_id, evs) ==
    [s \in DOMAIN map \cap {server_id} |-> ApplyEvents(map[s], evs)]

\* BaseOwnershipController._set_base_ownership: an unknown server is
\* logged and the events are dropped
_set_base_ownership(map, server_id, evs) ==
    IF server_id \notin DOMAIN map THEN map
    ELSE [map EXCEPT ![server_id] = ApplyEvents(@, evs)]

\* handle applying each event to the dict of the event's own server
RECURSIVE handle_each_server(_, _)
handle_each_server(map, evs) ==
    IF evs = <<>> \/ evs[1].type # "BaseControl" THEN map
    ELSE handle_each_server(
            _set_base_ownership(map, evs[1].server_id, <<evs[1]>>),
            Tail(evs))

\* BaseOwnershipController.handle
handle(map, evs) ==
    IF evs # <<>> /\ evs[1].type = "BaseControl"
    THEN _set_base_ownership(map, evs[1].server_id, evs)
    ELSE map

\* the events of evs before the first that is not a BaseControl
RECURSIVE BaseControlPrefix(_)
BaseControlPrefix(evs) ==
    IF evs = <<>> \/ Head(evs).type # "BaseControl" THEN <<>>
    ELSE <<Head(evs)>> \o BaseControlPrefix(Tail(evs))

\* handle_raises without the isinstance test of line 53
handle_raises_untyped(map, evs) ==
    /\ evs # <<>>
    /\ evs[1].server_id \in DOMAIN map
    /\ BaseControlPrefix(evs) # evs

\* whether handle() raises: an event without new_faction_id and base_id
\* reaches line 114 (AttributeError), which takes a batch that starts with a
\* BaseControl of a known server and holds an event of another type; the
\* dispatcher builds no such batch
handle_raises(map, evs) ==
    /\ evs # <<>>
    /\ evs[1].type = "BaseControl"
    /\ evs[1].server_id \in DOMAIN map
    /\ BaseControlPrefix(evs) # evs

\* the effect of the handle() calls of one _dispatch() on the controller
RECURSIVE HandleAll(_, _)
HandleAll(map, handleCalls) ==
    IF handleCalls = <<>> THEN map
    ELSE HandleAll(IF Head(handleCalls).handler = Controller
                   THEN handle(map, Head(handleCalls).batch)
                   ELSE map,
                   Tail(handleCalls))

\* a row of a snapshot: row_entry['RowData'] with RegionId and FactionId;
\* BadRow is an entry for which the reads of lines 144-146 raise KeyError or
\* ValueError
Rows == [RegionId : BaseIds, FactionId : FactionIds]
BadRow == [RegionId |-> 0, FactionId |-> 0]

\* what client.request() returns: a payload with or without 'map_list', and
\* the rows of its map_list in iteration order
Snapshots ==
    {d \in [has_map_list : BOOLEAN,
            rows : SeqsUpTo(Rows \cup {BadRow}, MaxRows)] :
        d.has_map_list \/ d.rows = <<>>}

\* the rows read before the first unusable one
RECURSIVE GoodPrefix(_)
GoodPrefix(rows) ==
    IF rows = <<>> \/ Head(rows) = BadRow THEN <<>>
    ELSE <<Head(rows)>> \o GoodPrefix(Tail(rows))

\* lines 142-147: self._ownership_map[server_id][base_id] = faction_id, now
RECURSIVE LoadRows(_, _, _)
LoadRows(owner_map, rows, now) ==
    IF rows = <<>> THEN owner_map
    ELSE LoadRows(Put(owner_map, Head(rows).RegionId,
                      [faction |-> Head(rows).FactionId, timestamp |-> now]),
                  Tail(rows), now)

\* _set_base_ownership_from_census_data without the reset of line 141: the
\* rows are loaded into the dict the server has
_set_base_ownership_from_census_data_merging(map, server_id, data, now) ==
    IF ~data.has_map_list
    THEN [map |-> map, raised |-> TRUE]
    ELSE [map |-> Put(map, server_id,
                      LoadRows(IF server_id \in DOMAIN map
                               THEN map[server_id] ELSE EmptyDict,
                               GoodPrefix(data.rows), now)),
          raised |-> GoodPrefix(data.rows) # data.rows]

\* _set_base_ownership_from_census_data inside the try of _initialize: the
\* map it leaves and whether KeyError/ValueError was raised (and caught)
_set_base_ownership_from_census_data(map, server_id, data, now) ==
    IF ~data.has_map_list
    THEN [map |-> map, raised |-> TRUE]
    ELSE [map |-> Put(map, server_id,
                      LoadRows(EmptyDict, GoodPrefix(data.rows), now)),
          raised |-> GoodPrefix(data.rows) # data.rows]

\* base_id -> faction of an ownership dict
FactionsOf(owner_map) == [b \in DOMAIN owner_map |-> owner_map[b].faction]

\* the lists of tracked servers the metadata query returns
RECURSIVE Ascending(_)
Ascending(S) ==
    IF S = {} THEN <<>>
    ELSE LET m == CHOOSE x \in S : \A y \in S : x <= y
         IN  <<m>> \o Ascending(S \ {m})

TrackedLists == {Ascending(S) : S \in SUBSET ServerIds}

\* a coroutine suspended at "await self._get_tracked_servers_and_continents()";
\* via names its caller, __ainit__ or reinitialize; loaded and delivered
\* record, while it is in progress, the snapshots it has loaded and the
\* events the controller has been handed
NewInit(via) ==
    [via |-> via, pc |-> "meta", servers |-> <<>>, i |-> 0,
     loaded |-> EmptyDict, delivered |-> EmptyDict]

\* main(): the dispatcher with the controller registered; the constructor
\* has set _initializing and spawned __ainit__()
Init ==
    /\ CacheUnused
    /\ HexUnused
    /\ AppUnused
    /\ clock = 0
    /\ _handlers = <<Controller>>
    /\ events = <<>>
    /\ handled = <<>>
    /\ pc = "sleep"
    /\ error = "none"
    /\ buffer = <<>>
    /\ _ownership_map = EmptyDict
    /\ _initializing = TRUE
    /\ inits = <<NewInit("__ainit__")>>

\* time passes between two reads of datetime.now()
TickClock ==
    /\ clock < MaxClock
    /\ clock' = clock + 1
    /\ UNCHANGED <<hex, appVars, cacheVars, dispatchVars, ownershipVars>>

\* a row of the event buffer table that _event_factory cannot turn into a
\* BaseControl: strptime() or int() raises on one of its columns
UndecodableRows == [type : {"undecodable"}, timestamp : Timestamps]

\* the rows the event buffer table can hold
BufferRows == BaseControl \cup UndecodableRows

\* the event source inserts a row into the event buffer table
Produce(e) ==
    /\ Len(buffer) + Len(events) < MaxEvents
    /\ e.timestamp <= clock
    /\ buffer' = Append(buffer, e)
    /\ UNCHANGED <<hex, appVars, cacheVars, clock, dispatchVars, _ownership_map,
                   _initializing, inits>>

\* Popped of a statement without the WHERE clause
PoppedAnyAge(rows, older_than) == rows

\* DELETE ... WHERE "timestamp" < $1 RETURNING ...: the rows returned
Popped(rows, older_than) ==
    SelectSeq(rows, LAMBDA r : r.timestamp < older_than)

\* Remaining of a statement that reads the rows and deletes none
RemainingNoneDeleted(rows, older_than) == rows

\* DELETE ... WHERE "timestamp" < $1 RETURNING ...: the rows left in the table
Remaining(rows, older_than) ==
    SelectSeq(rows, LAMBDA r : ~(r.timestamp < older_than))

\* _event_factory: one event per row, in row order; the conversions of
\* lines 90-99 are in no try, so the first row that does not convert ends the
\* call with ValueError
_event_factory(rows) ==
    IF \A n \in 1..Len(rows) : rows[n].type # "undecodable"
    THEN [raised |-> FALSE, events |-> rows]
    ELSE [raised |-> TRUE, events |-> <<>>]

\* _fetch_events(): the rows older than min_age are popped and converted
_fetch_events(rows, now) ==
    LET older_than == now - min_age
        made == _event_factory(Popped(rows, older_than))
    IN  [raised |-> made.raised, events |-> made.events,
         buffer |-> Remaining(rows, older_than)]

\* run() with the exception of a fetch caught and the loop continued
RunAfterRaiseFetchRetried(where) ==
    IF where = "fetch" THEN "sleep" ELSE "raised"

\* run() with the exception of a handler caught and the loop continued
RunAfterRaiseHandlerCaught(where) ==
    IF where = "handler" THEN "sleep" ELSE "raised"

\* run(): lines 45-50 hold no try, so an exception raised by
\* _fetch_events() or by _dispatch() leaves run()
RunAfterRaise(where) == "raised"

\* run(): after the sleep, _fetch_events() pops the rows older than min_age
RunFetch ==
    /\ pc = "sleep"
    /\ LET r == _fetch_events(buffer, clock)
       IN  /\ ~r.raised
           /\ events' = r.events
           /\ buffer' = r.buffer
    /\ handled' = <<>>
    /\ pc' = "fetched"
    /\ UNCHANGED <<hex, appVars, cacheVars, clock, _handlers, error, _ownership_map,
                   _initializing, inits>>

\* run(): the rows are popped, _event_factory raises on one of them and the
\* exception leaves _fetch_events() and run()
RunFetchDecodeRaises ==
    /\ pc = "sleep"
    /\ LET r == _fetch_events(buffer, clock)
       IN  /\ r.raised
           /\ buffer' = r.buffer
    /\ error' = "decode"
    /\ pc' = RunAfterRaise("decode")
    /\ UNCHANGED <<hex, appVars, cacheVars, clock, _handlers, events, handled,
                   _ownership_map, _initializing, inits>>

\* run(): the connection or the statement of _fetch_events() raises
RunFetchRaises ==
    /\ pc = "sleep"
    /\ error' = "fetch"
    /\ pc' = RunAfterRaise("fetch")
    /\ UNCHANGED <<hex, appVars, cacheVars, clock, _handlers, events, handled,
                   ownershipVars>>

\* (server, base) -> new faction of the last of the events evs, over d
RECURSIVE Deliver(_, _)
Deliver(d, evs) ==
    IF evs = <<>> THEN d
    ELSE Deliver(Put(d, <<Head(evs).server_id, Head(evs).base_id>>,
                     Head(evs).new_faction_id),
                 Tail(evs))

\* Deliver for the batches the handle() calls hand to the controller
RECURSIVE DeliverAll(_, _)
DeliverAll(d, handleCalls) ==
    IF handleCalls = <<>> THEN d
    ELSE DeliverAll(IF Head(handleCalls).handler = Controller
                    THEN Deliver(d, Head(handleCalls).batch)
                    ELSE d,
                    Tail(handleCalls))

\* the coroutines with the handle() calls recorded in those that are in
\* progress: what the controller was handed during each initialisation
Delivering(handleCalls) ==
    [t \in 1..Len(inits) |->
        IF inits[t].pc \in {"meta", "request"}
        THEN [inits[t] EXCEPT !.delivered = DeliverAll(@, handleCalls)]
        ELSE inits[t]]

\* run() leaving the loop after a poll that fetched nothing
RunAfterDispatchReturnsWhenIdle(evs) ==
    IF evs = <<>> THEN "returned" ELSE "sleep"

\* run(): "while True" has no break and no return; after the dispatch (or
\* after a poll that fetched nothing) comes the next sleep
RunAfterDispatch(evs) == "sleep"

\* run(): "if events: self._dispatch(events)", then the next iteration
RunDispatch ==
    /\ pc = "fetched"
    /\ handled' = IF events # <<>> THEN Dispatch(_handlers, events) ELSE <<>>
    /\ _ownership_map' = HandleAll(_ownership_map, handled')
    /\ inits' = Delivering(handled')
    /\ pc' = RunAfterDispatch(events)
    /\ UNCHANGED <<hex, appVars, cacheVars, clock, _handlers, events, error, buffer,
                   _initializing>>

\* DispatchUntilRaise with the exception caught around the loop over the
\* handlers: the batch of the raising call is given up, the later batches
\* are dispatched
DispatchSkippingBatch(handlers, evs, k) ==
    LET all == Dispatch(handlers, evs)
    IN  SubSeq(all, 1, k) \o
        SelectSeq(SubSeq(all, k + 1, Len(all)),
                  LAMBDA c : c.batch # all[k].batch)

\* lines 79-81 when the k-th handle() call raises: the loops hold no try, so
\* the calls made are the first k
DispatchUntilRaise(handlers, evs, k) == SubSeq(Dispatch(handlers, evs), 1, k)

\* run(): the k-th handle() call of _dispatch() raises (the ownership
\* controller raises on no batch the dispatcher builds, see handle)
RunDispatchRaises(k) ==
    /\ pc = "fetched"
    /\ events # <<>>
    /\ k \in 1..Len(Dispatch(_handlers, events))
    /\ Dispatch(_handlers, events)[k].handler # Controller
    /\ handled' = DispatchUntilRaise(_handlers, events, k)
    /\ _ownership_map' = HandleAll(_ownership_map, handled')
    /\ inits' = Delivering(handled')
    /\ error' = "handler"
    /\ pc' = RunAfterRaise("handler")
    /\ UNCHANGED <<hex, appVars, cacheVars, clock, _handlers, events, buffer,
                   _initializing>>

\* the coroutines that have not finished
Running == SelectSeq(inits, LAMBDA c : c.pc \in {"meta", "request"})

\* reinitialize(): _initialize() sets the flag and awaits the metadata (the
\* records of finished coroutines are dropped)
ReinitializeUpTo(n) ==
    /\ Len(Running) < n
    /\ _initializing' = TRUE
    /\ inits' = Append(Running, NewInit("reinitialize"))
    /\ UNCHANGED <<hex, appVars, cacheVars, clock, dispatchVars, buffer, _ownership_map>>

Reinitialize == ReinitializeUpTo(MaxRunning)

\* _initialize(): the metadata query returns; the map is reset and the
\* first snapshot is requested (with no tracked server the loop is empty and
\* the initialisation completes)
InitMeta(t, servers) ==
    /\ t \in 1..Len(inits)
    /\ inits[t].pc = "meta"
    /\ _ownership_map' = [s \in {servers[n] : n \in 1..Len(servers)} |->
                             EmptyDict]
    /\ IF servers = <<>>
       THEN /\ inits' = [inits EXCEPT ![t].pc = "done",
                                      ![t].delivered = EmptyDict]
            /\ _initializing' = FALSE
       ELSE /\ inits' = [inits EXCEPT ![t].pc = "request",
                                      ![t].servers = servers,
                                      ![t].i = 1]
            /\ UNCHANGED _initializing
    /\ UNCHANGED <<hex, appVars, cacheVars, clock, dispatchVars, buffer>>

\* _initialize(): the metadata query raises and ends the coroutine
InitMetaRaises(t) ==
    /\ t \in 1..Len(inits)
    /\ inits[t].pc = "meta"
    /\ inits' = [inits EXCEPT ![t].pc = "raised",
                               ![t].delivered = EmptyDict]
    /\ UNCHANGED <<hex, appVars, cacheVars, clock, dispatchVars, buffer, _ownership_map,
                   _initializing>>

\* _initialize(): client.request() returns the snapshot of servers[i]; it is
\* loaded, then the next server is requested or the initialisation completes
InitLoad(t, data) ==
    /\ t \in 1..Len(inits)
    /\ inits[t].pc = "request"
    /\ LET server_id == inits[t].servers[inits[t].i]
           r == _set_base_ownership_from_census_data(
                    _ownership_map, server_id, data, clock)
           loaded == IF r.raised
                     THEN [s \in DOMAIN inits[t].loaded \ {server_id} |->
                              inits[t].loaded[s]]
                     ELSE Put(inits[t].loaded, server_id,
                              FactionsOf(LoadRows(EmptyDict, data.rows,
                                                  clock)))
       IN  /\ _ownership_map' = r.map
           /\ IF inits[t].i = Len(inits[t].servers)
              THEN /\ inits' = [inits EXCEPT ![t].pc = "done",
                                             ![t].loaded = loaded,
                                             ![t].delivered = EmptyDict]
                   /\ _initializing' = FALSE
              ELSE /\ inits' = [inits EXCEPT ![t].i = @ + 1,
                                             ![t].loaded = loaded]
                   /\ UNCHANGED _initializing
    /\ UNCHANGED <<hex, appVars, cacheVars, clock, dispatchVars, buffer>>

\* _initialize(): client.request() raises and ends the coroutine
InitRequestRaises(t) ==
    /\ t \in 1..Len(inits)
    /\ inits[t].pc = "request"
    /\ inits' = [inits EXCEPT ![t].pc = "raised",
                               ![t].delivered = EmptyDict]
    /\ UNCHANGED <<hex, appVars, cacheVars, clock, dispatchVars, buffer, _ownership_map,
                   _initializing>>

Next ==
    \/ TickClock
    \/ \E e \in BufferRows : Produce(e)
    \/ RunFetch
    \/ RunFetchDecodeRaises
    \/ RunFetchRaises
    \/ RunDispatch
    \/ Reinitialize
    \/ \E t \in 1..MaxRunning : \E servers \in TrackedLists : InitMeta(t, servers)
    \/ \E t \in 1..MaxRunning : InitMetaRaises(t)
    \/ \E t \in 1..MaxRunning : \E data \in Snapshots : InitLoad(t, data)
    \/ \E t \in 1..MaxRunning : InitRequestRaises(t)

Spec == Init /\ [][Next]_vars

\* ------------------------------------------------------------------------
\* BaseOwnershipController.handle() on batches of any kind
\* ------------------------------------------------------------------------
\* longest batch handle() is called with
MaxHandleBatch == 3

\* the per-server dicts the controller holds when handle() is called
OwnerMaps ==
    {EmptyDict} \cup
    {[b \in {1} |-> [faction |-> f, timestamp |-> t]] :
        f \in {1, 2}, t \in Timestamps}

\* the ownership maps the controller holds when handle() is called
HandleMaps == UNION {[S -> OwnerMaps] : S \in SUBSET ServerIds}

\* the events handle() is called with: BaseControl events of any time
HandleInputs ==
    {e \in Event \cup BaseControl :
        /\ e.type = "Event" => e.timestamp = 0
        /\ e.type = "BaseControl" => (e.base_id = 1 /\ e.new_faction_id <= 2)}

\* the batches handle() is called with
HandleBatches == SeqsUpTo(HandleInputs, MaxHandleBatch)

InitHandle ==
    /\ CacheUnused
    /\ HexUnused
    /\ AppUnused
    /\ clock = 0
    /\ _handlers = <<Controller>>
    /\ events = <<>>
    /\ handled = <<>>
    /\ pc = "idle"
    /\ error = "none"
    /\ buffer = <<>>
    /\ _ownership_map \in HandleMaps
    /\ _initializing \in BOOLEAN
    /\ inits = <<>>

\* handle(evs) is called on the controller; when it raises, the events
\* before the one that raised have been applied (the call is recorded with
\* the map it found)
HandleCall(evs) ==
    /\ pc = "idle"
    /\ events' = evs
    /\ handled' = <<[index |-> 1, handler |-> Controller, batch |-> evs,
                     before |-> _ownership_map]>>
    /\ IF handle_raises(_ownership_map, evs)
       THEN /\ _ownership_map' = handle(_ownership_map, BaseControlPrefix(evs))
            /\ error' = "handler"
       ELSE /\ _ownership_map' = handle(_ownership_map, evs)
            /\ error' = "none"
    /\ pc' = "handled"
    /\ UNCHANGED <<hex, appVars, cacheVars, clock, _handlers, buffer, _initializing, inits>>

NextHandle == \E evs \in HandleBatches : HandleCall(evs)

SpecHandle == InitHandle /\ [][NextHandle]_vars

\* ------------------------------------------------------------------------
\* EventDispatcher.run() with handlers of any kind
\* ------------------------------------------------------------------------
\* number of handlers registered when run() is awaited
MaxRegistered == 2

\* run() is awaited on a dispatcher whose add_handler() calls have been made
InitRun ==
    /\ CacheUnused
    /\ HexUnused
    /\ AppUnused
    /\ OwnershipUnused
    /\ clock = 0
    /\ _handlers \in SeqsUpTo(HandlerIds, MaxRegistered)
    /\ events = <<>>
    /\ handled = <<>>
    /\ pc = "sleep"
    /\ error = "none"

\* the fetch of one poll, whatever its outcome
RunFetchStep == RunFetch \/ RunFetchDecodeRaises \/ RunFetchRaises

\* the dispatch of one poll, whatever its outcome
RunDispatchStep ==
    \/ RunDispatch
    \/ \E k \in 1..(MaxRegistered * MaxEvents) : RunDispatchRaises(k)

NextRun ==
    \/ TickClock
    \/ \E e \in BufferRows : Produce(e)
    \/ RunFetchStep
    \/ RunDispatchStep

SpecRun == InitRun /\ [][NextRun]_vars

\* asyncio.sleep(1.0) returns and the awaited fetch returns or raises;
\* _dispatch() is synchronous and ends
FairRun ==
    /\ SpecRun
    /\ WF_vars(RunFetchStep)
    /\ WF_vars(RunDispatchStep)

\* FairRun with time that passes: datetime.now() advances between polls
FairPoll ==
    /\ FairRun
    /\ WF_vars(TickClock)

\* ------------------------------------------------------------------------
\* controller/_map.py: ContinentInstance and MapHandler
\* ------------------------------------------------------------------------
\* number of facilities blips are about
NumBlipBases == 2
\* number of continents
NumContinents == 2
\* longest list of blips handed to one call
MaxBlips == 2

\* blips.BaseControl, on one server and continent
BaseControlBlips ==
    [server_id : {1}, continent_id : {1}, base_id : 1..NumBlipBases,
     old_faction_id : 1..NumFactions, new_faction_id : 1..NumFactions]

\* what _base_owners can hold after set_ownership() calls: base -> faction
OwnerDicts ==
    UNION {[known -> 1..NumFactions] : known \in SUBSET (1..NumBlipBases)}

\* ContinentInstance.process_base_control_blips:
\*   old_owner = base_owners[blip.old_faction_id]   (KeyError without entry)
\*   if old_owner == new_owner: log, else base_owners[blip.base_id] = new_owner
\* the dict is written in place: when a blip raises, the blips before it
\* have been applied
RECURSIVE process_base_control_blips(_, _)
process_base_control_blips(base_owners, blips) ==
    IF blips = <<>> THEN [raised |-> FALSE, base_owners |-> base_owners]
    ELSE LET blip == Head(blips)
             new_owner == blip.new_faction_id
         IN  IF blip.old_faction_id \notin DOMAIN base_owners
             THEN [raised |-> TRUE, base_owners |-> base_owners]
             ELSE LET old_owner == base_owners[blip.old_faction_id]
                  IN  process_base_control_blips(
                          IF old_owner = new_owner THEN base_owners
                          ELSE Put(base_owners, blip.base_id, new_owner),
                          Tail(blips))

\* a ContinentInstance with some owners set; process_base_control_blips is
\* about to be called
InitContinent ==
    /\ CacheUnused
    /\ HexUnused
    /\ OwnershipUnused
    /\ clock = 0
    /\ _handlers = <<>>
    /\ events = <<>>
    /\ handled = <<>>
    /\ pc = "idle"
    /\ error = "none"
    /\ main = [pc |-> "none"]
    /\ _base_owners \in OwnerDicts
    /\ blip_listeners = EmptyDict
    /\ call \in [pc : {"call"},
                 blips : SeqsUpTo(BaseControlBlips, MaxBlips)]

\* process_base_control_blips(blips) returns or raises
ProcessBaseControlBlips ==
    /\ call.pc = "call"
    /\ LET r == process_base_control_blips(_base_owners, call.blips)
       IN  /\ _base_owners' = r.base_owners
           /\ call' = [pc |-> IF r.raised THEN "raised" ELSE "returned",
                       blips |-> call.blips, before |-> _base_owners]
    /\ UNCHANGED <<hex, main, blip_listeners, cacheVars, clock, dispatchVars,
                   ownershipVars>>

NextContinent == ProcessBaseControlBlips

SpecContinent == InitContinent /\ [][NextContinent]_vars

\* blips.PlayerBlip
PlayerBlips ==
    [server_id : 1..NumServers, continent_id : 1..NumContinents,
     player_id : {1}, base_id : 1..NumBlipBases]

\* MapHandler._group_blips:
\*   filtered = filter(is_valid, blips)          (blips of self.server_id)
\*   grouped = {i: [] for i in self.continents}
\*   for blip in filtered: grouped[blip.continent_id].append(blip)
\* grouped[...] raises KeyError for a continent that is not self.continents'
_group_blips(server_id, continents, blips) ==
    LET filtered == SelectSeq(blips, LAMBDA b : b.server_id = server_id)
    IN  IF \E n \in 1..Len(filtered) :
               filtered[n].continent_id \notin continents
        THEN [raised |-> TRUE]
        ELSE [raised |-> FALSE,
              grouped |-> [i \in continents |->
                  SelectSeq(filtered, LAMBDA b : b.continent_id = i)]]

\* a MapHandler of a server and some continents; _group_blips is about to
\* be called
InitGroup ==
    /\ CacheUnused
    /\ HexUnused
    /\ OwnershipUnused
    /\ clock = 0
    /\ _handlers = <<>>
    /\ events = <<>>
    /\ handled = <<>>
    /\ pc = "idle"
    /\ error = "none"
    /\ main = [pc |-> "none"]
    /\ _base_owners = EmptyDict
    /\ blip_listeners = EmptyDict
    /\ call \in [pc : {"call"}, server_id : 1..NumServers,
                 continents : SUBSET (1..NumContinents) \ {{}},
                 blips : SeqsUpTo(PlayerBlips, MaxBlips)]

\* _group_blips(blips) returns or raises
GroupBlips ==
    /\ call.pc = "call"
    /\ LET r == _group_blips(call.server_id, call.continents, call.blips)
       IN  call' = IF r.raised
                   THEN [call EXCEPT !.pc = "raised"]
                   ELSE [pc |-> "returned", server_id |-> call.server_id,
                         continents |-> call.continents,
                         blips |-> call.blips, grouped |-> r.grouped]
    /\ UNCHANGED <<hex, main, _base_owners, blip_listeners, cacheVars, clock,
                   dispatchVars, ownershipVars>>

NextGroup == GroupBlips

SpecGroup == InitGroup /\ [][NextGroup]_vars

\* ------------------------------------------------------------------------
\* controller/_server.py: BackendServer.__init__, and the dispatch of
\* DatabaseHandler.fetch_blips (controller/_db.py)
\* ------------------------------------------------------------------------
\* the blip types BackendServer registers for
ListenerTypes == {"BaseControl", "PlayerBlip"}

\* the callbacks registered by somebody else before the constructor
OtherCallbacks == {"x", "y"}

\* the bound method of the map handler of a server
Callback(server_id, method) == [handler |-> server_id, method |-> method]

\* the method BackendServer registers for a blip type
MethodFor(type) ==
    IF type = "BaseControl"
    THEN "dispatch_base_control" ELSE "dispatch_player_blips"

\* the callbacks of the map handlers for a blip type, in the order of
\* map_handlers.values()
CallbacksFor(map_handlers, type) ==
    [n \in 1..Cardinality(map_handlers) |->
        Callback(Ascending(map_handlers)[n], MethodFor(type))]

\* what blip_listeners can hold before the constructor: it starts as {}
\* (DatabaseHandler.__init__) and the caller may have registered callbacks
ListenerTables ==
    UNION {[types -> SeqsUpTo(OtherCallbacks, 1)] :
              types \in SUBSET ListenerTypes}

\* lines 41-46 and 48-53 of __init__ for one blip type: the list found
\* under the type is appended to in place; on KeyError the callbacks are
\* appended to a new list that is stored nowhere
Register(listeners, map_handlers, type) ==
    IF type \in DOMAIN listeners
    THEN Put(listeners, type,
             listeners[type] \o CallbacksFor(map_handlers, type))
    ELSE listeners

\* fetch_blips, lines 114-128: the callbacks of each blip type that has an
\* entry are scheduled, in the order of Blip.__subclasses__()
Scheduled(listeners) ==
    (IF "PlayerBlip" \in DOMAIN listeners
     THEN listeners["PlayerBlip"] ELSE <<>>)
    \o (IF "BaseControl" \in DOMAIN listeners
        THEN listeners["BaseControl"] ELSE <<>>)

\* a DatabaseHandler and the map handlers of some servers; BackendServer
\* is about to be constructed
InitServer ==
    /\ CacheUnused
    /\ HexUnused
    /\ OwnershipUnused
    /\ clock = 0
    /\ _handlers = <<>>
    /\ events = <<>>
    /\ handled = <<>>
    /\ pc = "idle"
    /\ error = "none"
    /\ main = [pc |-> "none"]
    /\ _base_owners = EmptyDict
    /\ blip_listeners \in ListenerTables
    /\ call \in [pc : {"new"}, map_handlers : SUBSET (1..NumServers),
                 scheduled : {<<>>}]

\* BackendServer(arx_client, db_handler, map_handlers)
BackendServerInit ==
    /\ call.pc = "new"
    /\ blip_listeners' =
          Register(Register(blip_listeners, call.map_handlers, "BaseControl"),
                   call.map_handlers, "PlayerBlip")
    /\ call' = [call EXCEPT !.pc = "constructed"]
    /\ UNCHANGED <<hex, main, _base_owners, cacheVars, clock, dispatchVars,
                   ownershipVars>>

\* db_handler.fetch_blips() gets to its dispatch loop
FetchBlips ==
    /\ call.pc = "constructed"
    /\ call' = [call EXCEPT !.pc = "fetched",
                            !.scheduled = Scheduled(blip_listeners)]
    /\ UNCHANGED <<hex, main, _base_owners, blip_listeners, cacheVars, clock,
                   dispatchVars, ownershipVars>>

NextServer == BackendServerInit \/ FetchBlips

SpecServer == InitServer /\ [][NextServer]_vars

\* ------------------------------------------------------------------------
\* controller/__main__.py: main() around dispatcher.run()
\* ------------------------------------------------------------------------
\* what ends run() from outside: the task is cancelled or interrupted
Interrupts == {"CancelledError", "KeyboardInterrupt"}

\* "except Exception": CancelledError and KeyboardInterrupt derive from
\* BaseException only
CatchesException(e) == e \notin Interrupts

\* "except BaseException": every exception is an instance of it
Catches(e) == TRUE

\* main() has created the pool and the dispatcher, has registered the
\* controller when base_ownership is set, and awaits dispatcher.run(). The
\* steps of the controller's initialisation are those of Spec and are not
\* repeated here.
InitMain ==
    /\ CacheUnused
    /\ HexUnused
    /\ clock = 0
    /\ \E base_ownership \in BOOLEAN :
          /\ _handlers = IF base_ownership THEN <<Controller>> ELSE <<>>
          /\ inits = IF base_ownership
                     THEN <<NewInit("__ainit__")>> ELSE <<>>
    /\ events = <<>>
    /\ handled = <<>>
    /\ pc = "sleep"
    /\ error = "none"
    /\ buffer = <<>>
    /\ _ownership_map = EmptyDict
    /\ _initializing = TRUE
    /\ main = [pc |-> "run", logged |-> <<>>, pending |-> "none",
               closed |-> 0]
    /\ _base_owners = EmptyDict
    /\ blip_listeners = EmptyDict
    /\ call = [pc |-> "none"]

\* run() is suspended at the sleep or inside the fetch when its task is
\* cancelled or interrupted: the exception is raised at the await
RunInterrupted(e) ==
    /\ main.pc = "run"
    /\ pc = "sleep"
    /\ error' = e
    /\ pc' = RunAfterRaise(e)
    /\ UNCHANGED <<hex, appVars, cacheVars, clock, _handlers, events, handled,
                   ownershipVars>>

\* lines 75-76: the exception that left run() is caught and logged with
\* log.exception(); one the clause does not catch stays pending
MainExcept ==
    /\ main.pc = "run"
    /\ error # "none"
    /\ main' = IF Catches(error)
               THEN [main EXCEPT !.pc = "finally",
                                 !.logged = Append(@, error)]
               ELSE [main EXCEPT !.pc = "finally", !.pending = error]
    /\ UNCHANGED <<hex, _base_owners, blip_listeners, call, cacheVars, clock,
                   dispatchVars, ownershipVars>>

\* lines 77-79: the finally clause awaits pool.close(); then main() returns,
\* or the pending exception leaves main()
MainFinally ==
    /\ main.pc = "finally"
    /\ main' = [main EXCEPT
                   !.closed = @ + 1,
                   !.pc = IF main.pending = "none"
                          THEN "returned" ELSE "propagated"]
    /\ UNCHANGED <<hex, _base_owners, blip_listeners, call, cacheVars, clock,
                   dispatchVars, ownershipVars>>

NextMain ==
    \/ TickClock
    \/ \E e \in BufferRows : Produce(e)
    \/ RunFetchStep
    \/ RunDispatch
    \/ \E e \in Interrupts : RunInterrupted(e)
    \/ MainExcept
    \/ MainFinally

SpecMain == InitMain /\ [][NextMain]_vars

\* main() is not suspended for ever in its except and finally clauses
FairMain ==
    /\ SpecMain
    /\ WF_vars(MainExcept)
    /\ WF_vars(MainFinally)

\* ------------------------------------------------------------------------
\* BaseOwnershipController with handle() called at any moment: one
\* initialisation at a time and snapshots of several rows (SpecReload), or
\* initialisations that overlap (SpecOverlap)
\* ------------------------------------------------------------------------
\* largest number of rows in a snapshot
MaxLoadRows == 2
\* number of _initialize() coroutines in progress at the same time
MaxOverlap == 2

\* what client.request() returns, with up to MaxLoadRows rows
LoadSnapshots ==
    {d \in [has_map_list : BOOLEAN,
            rows : SeqsUpTo(Rows \cup {BadRow}, MaxLoadRows)] :
        d.has_map_list \/ d.rows = <<>>}

\* the batches handle() is called with: one BaseControl event
Deltas == {<<e>> : e \in {d \in BaseControl : d.timestamp = 0}}

\* the constructor has run; run() is not awaited
InitBootstrap ==
    /\ CacheUnused
    /\ HexUnused
    /\ AppUnused
    /\ clock = 0
    /\ _handlers = <<Controller>>
    /\ events = <<>>
    /\ handled = <<>>
    /\ pc = "idle"
    /\ error = "none"
    /\ buffer = <<>>
    /\ _ownership_map = EmptyDict
    /\ _initializing = TRUE
    /\ inits = <<NewInit("__ainit__")>>

\* handle(evs) is called on the controller; the call is recorded with the
\* map and the coroutines it found
HandleDuring(evs) ==
    /\ events' = evs
    /\ handled' = <<[index |-> 1, handler |-> Controller, batch |-> evs,
                     before |-> _ownership_map, during |-> inits]>>
    /\ _ownership_map' = handle(_ownership_map, evs)
    /\ UNCHANGED <<hex, appVars, cacheVars, clock, _handlers, pc, error, buffer,
                   _initializing, inits>>

NextReload ==
    \/ ReinitializeUpTo(1)
    \/ \E servers \in TrackedLists : InitMeta(1, servers)
    \/ InitMetaRaises(1)
    \/ \E data \in LoadSnapshots : InitLoad(1, data)
    \/ InitRequestRaises(1)
    \/ \E evs \in Deltas : HandleDuring(evs)

SpecReload == InitBootstrap /\ [][NextReload]_vars

\* handle(evs) is called on the controller
HandleDelta(evs) ==
    /\ events' = evs
    /\ handled' = <<[index |-> 1, handler |-> Controller, batch |-> evs]>>
    /\ _ownership_map' = handle(_ownership_map, evs)
    /\ UNCHANGED <<hex, appVars, cacheVars, clock, _handlers, pc, error, buffer,
                   _initializing, inits>>

NextOverlap ==
    \/ ReinitializeUpTo(MaxOverlap)
    \/ \E t \in 1..MaxOverlap : \E servers \in TrackedLists :
          InitMeta(t, servers)
    \/ \E t \in 1..MaxOverlap : InitMetaRaises(t)
    \/ \E t \in 1..MaxOverlap : \E data \in Snapshots : InitLoad(t, data)
    \/ \E t \in 1..MaxOverlap : InitRequestRaises(t)
    \/ \E evs \in Deltas : HandleDelta(evs)

SpecOverlap == InitBootstrap /\ [][NextOverlap]_vars

\* ------------------------------------------------------------------------
\* apl_backend/_hexgen.py
\* ------------------------------------------------------------------------
\* largest absolute value of a tile coordinate
MaxTile == 2
\* largest radius of a hexagon
MaxRadius == 2

\* Lengths are kept exact: a width or an x position is a whole number of
\* units of sqrt(3)/2 (fields width2, x2), a height or a y position a whole
\* number of units of 1/4 (fields height4, y4). The rounding of the floating
\* point operations is not part of the model.

\* _radius_to_size with the radius taken for the height
_radius_to_size_radius_as_height(radius) ==
    IF radius <= 0
    THEN [raised |-> TRUE]
    ELSE [raised |-> FALSE, width2 |-> 2 * radius, height4 |-> 4 * radius]

\* _radius_to_size: (math.sqrt(3) * radius, 2 * radius), ValueError for a
\* radius that is not positive
_radius_to_size(radius) ==
    IF radius <= 0
    THEN [raised |-> TRUE]
    ELSE [raised |-> FALSE, width2 |-> 2 * radius,
          height4 |-> 4 * (2 * radius)]

\* _tile_to_point:
\*   pos_x = width * (tile.u + tile.v * 0.5)
\*   pos_y = tile.v * height * 0.75
_tile_to_point(tile, radius) ==
    IF radius <= 0
    THEN [raised |-> TRUE]
    ELSE LET size == _radius_to_size(radius)
         IN  IF size.raised
             THEN [raised |-> TRUE]
             ELSE [raised |-> FALSE,
                   x2 |-> (size.width2 * (2 * tile.u + tile.v)) \div 2,
                   y4 |-> (tile.v * size.height4 * 3) \div 4]

\* the tiles and radii _tile_to_point is called with
Tiles == [u : (0 - MaxTile)..MaxTile, v : (0 - MaxTile)..MaxTile]
Radii == (0 - 1)..MaxRadius

InitHex ==
    /\ CacheUnused
    /\ OwnershipUnused
    /\ clock = 0
    /\ _handlers = <<>>
    /\ events = <<>>
    /\ handled = <<>>
    /\ pc = "idle"
    /\ error = "none"
    /\ hex \in [pc : {"call"}, tile : Tiles, radius : Radii]
    /\ AppUnused

\* _tile_to_point(tile, radius) returns or raises
TileToPoint ==
    /\ hex.pc = "call"
    /\ LET r == _tile_to_point(hex.tile, hex.radius)
       IN  hex' = IF r.raised
                  THEN [pc |-> "raised", tile |-> hex.tile,
                        radius |-> hex.radius]
                  ELSE [pc |-> "returned", tile |-> hex.tile,
                        radius |-> hex.radius, x2 |-> r.x2, y4 |-> r.y4]
    /\ UNCHANGED <<appVars, cacheVars, clock, dispatchVars, ownershipVars>>

NextHex == TileToPoint

SpecHex == InitHex /\ [][NextHex]_vars

\* ========================================================================
\* Properties of tlru_cache (checked under SpecCache)
\* ========================================================================

\* calls i..j are calls with identical arguments, and no two of the calls
\* made up to j overlap: each has completed before the next one starts
SameKeyRun(i, j) ==
    /\ \A m \in i..j : calls[m].key = calls[i].key
    /\ \A m \in 2..j : (m - 1) \in calls[m].donebefore

\* C1: with maxsize >= 1, in a sequence of calls with identical arguments
\* whose call times lie within the TTL window of the first call, the wrapped
\* function is invoked exactly once (by the first call) and every call
\* returns that invocation's value; the first call after the TTL has elapsed
\* invokes the wrapped function once more.
C1_OneInvocationPerTtlWindow ==
    maxsize >= 1 =>
        \A i \in 1..Len(calls) : \A j \in (i + 1)..Len(calls) :
            (/\ SameKeyRun(i, j)
             /\ ~calls[i].hit
             /\ calls[i].pc = "returned")
            => /\ calls[j].now - calls[i].now < ttl
                  => (calls[j].hit /\ calls[j].value = calls[i].value)
               /\ (/\ calls[j].now - calls[i].now >= ttl
                   /\ \A m \in (i + 1)..(j - 1) : calls[m].hit)
                  => ~calls[j].hit

\* C2: when an insertion makes the table exceed maxsize, the evicted entry
\* is never the entry of the key that was just inserted.
C2_EvictedNotInserted ==
    (maxsize >= 1 /\ lastTruncate # NoTruncate)
        => lastTruncate.evicted # lastTruncate.inserted

\* C3: the table never holds more than maxsize entries, whatever the number
\* of distinct keys and whichever misses are in flight at the same time.
C3_AtMostMaxsize == Len(cache) <= maxsize

\* two misses for distinct keys were in flight at the same time, both have
\* returned, an entry was evicted and the table is full
C3_Witness ==
    /\ maxsize >= 1
    /\ Len(cache) = maxsize
    /\ lastTruncate # NoTruncate
    /\ \E i \in 1..Len(calls) : \E j \in (i + 1)..Len(calls) :
          /\ calls[i].key # calls[j].key
          /\ ~calls[i].hit /\ ~calls[j].hit
          /\ calls[i].pc = "returned" /\ calls[j].pc = "returned"
          /\ i \notin calls[j].donebefore

\* call i leaves wrapper() by the exception of the wrapped function
Raises(i) ==
    /\ i \in 1..Len(calls)
    /\ calls[i].pc = "await"
    /\ calls'[i].pc = "raised"

\* C4: when the wrapped lookup raises, the exception reaches the caller and
\* the table is left as it was (no entry created or refreshed for the key),
\* so the next call with the same arguments invokes the wrapped lookup again.
C4_FailureNotMemoized ==
    /\ [][\A i \in 1..MaxCalls : Raises(i) =>
            /\ cache' = cache
            /\ (cache = calls[i].table
                   => ~IsHit(cache', calls[i].key, clock'))]_vars
    /\ [](\A i \in 1..Len(calls) : \A j \in (i + 1)..Len(calls) :
            (/\ calls[i].pc = "raised"
             /\ calls[j].key = calls[i].key
             /\ i \in calls[j].donebefore
             /\ calls[j].table = calls[i].table)
            => ~calls[j].hit)

\* a lookup failed while the table held an entry, and the next call with the
\* same arguments invoked the wrapped lookup again
C4_Witness ==
    /\ Len(cache) >= 1
    /\ \E i \in 1..Len(calls) : \E j \in (i + 1)..Len(calls) :
          /\ calls[i].pc = "raised"
          /\ calls[j].key = calls[i].key
          /\ i \in calls[j].donebefore
          /\ calls[j].table = calls[i].table
          /\ calls[j].table # <<>>
          /\ ~calls[j].hit

\* ========================================================================
\* Properties of EventDispatcher (checked under SpecDispatch)
\* ========================================================================

\* the (type, server_id) pair of an event
PairOf(e) == <<e.type, e.server_id>>

\* the distinct (type, server_id) pairs occurring in a list of events
Pairs(evs) == {PairOf(evs[i]) : i \in 1..Len(evs)}

\* the events of a list that have the pair p, in list order
EventsOfPair(evs, p) == SelectSeq(evs, LAMBDA e : PairOf(e) = p)

\* the handle() calls received by the handler registered at position h
CallsOf(h) == {n \in 1..Len(handled) : handled[n].index = h}

\* C5: one dispatch invokes each registered handler exactly once per
\* distinct (type, server_id) pair of the list, and every batch holds events
\* of a single type and a single server_id.
C5_OncePerTypeAndServer ==
    pc = "dispatched" =>
        /\ \A h \in 1..Len(_handlers) :
              /\ Cardinality(CallsOf(h)) = Cardinality(Pairs(events))
              /\ \A p \in Pairs(events) :
                    Cardinality({n \in CallsOf(h) :
                        p \in Pairs(handled[n].batch)}) = 1
        /\ \A n \in 1..Len(handled) :
              Cardinality(Pairs(handled[n].batch)) = 1

\* the list [A@server1, A@server2, B@server1] was dispatched: three calls
\* for every handler
C5_Witness ==
    /\ pc = "dispatched"
    /\ Len(_handlers) >= 1
    /\ Len(events) = 3
    /\ events[1].type = events[2].type
    /\ events[1].server_id # events[2].server_id
    /\ events[3].type # events[1].type
    /\ events[3].server_id = events[1].server_id
    /\ \A h \in 1..Len(_handlers) : Cardinality(CallsOf(h)) = 3

\* C6: the batch a handler receives for a (type, server_id) pair holds every
\* event of the list with that pair, each once and in list order; the batches
\* of one handler partition the list.
C6_BatchesPartitionInOrder ==
    pc = "dispatched" =>
        /\ \A n \in 1..Len(handled) :
              handled[n].batch =
                  EventsOfPair(events, PairOf(handled[n].batch[1]))
        /\ \A h \in 1..Len(_handlers) :
              /\ \A p \in Pairs(events) :
                    \E n \in CallsOf(h) :
                        handled[n].batch = EventsOfPair(events, p)
              /\ \A n, m \in CallsOf(h) :
                    n # m => PairOf(handled[n].batch[1])
                                 # PairOf(handled[m].batch[1])

\* two different events of one pair, separated in the list by an event of
\* another pair, were delivered as one batch
C6_Witness ==
    /\ pc = "dispatched"
    /\ Len(_handlers) >= 1
    /\ Len(events) = 3
    /\ PairOf(events[1]) = PairOf(events[3])
    /\ PairOf(events[1]) # PairOf(events[2])
    /\ events[1] # events[3]
    /\ \E n \in 1..Len(handled) : handled[n].batch = <<events[1], events[3]>>

\* C7: add_handler appends without deduplication; for every batch the
\* handlers are invoked in registration order and every registration
\* receives every batch, so a handler registered k times is invoked k times
\* for each batch.
C7_RegistrationOrder ==
    /\ [][_handlers' # _handlers =>
            \E handler \in HandlerIds :
                _handlers' = Append(_handlers, handler)]_vars
    /\ [](pc = "dispatched" =>
            /\ Len(handled) = Len(_handlers) * Cardinality(Pairs(events))
            /\ \A n \in 1..Len(handled) :
                  LET h == ((n - 1) % Len(_handlers)) + 1
                  IN  /\ handled[n].index = h
                      /\ handled[n].handler = _handlers[h]
                      /\ handled[n].batch = handled[n - h + 1].batch)

\* a handler registered twice, next to another handler, received two batches
C7_Witness ==
    /\ pc = "dispatched"
    /\ Len(_handlers) = 3
    /\ _handlers[1] = _handlers[3]
    /\ _handlers[1] # _handlers[2]
    /\ Len(handled) >= 2 * Len(_handlers)
    /\ Cardinality({n \in 1..Len(handled) :
           handled[n].handler = _handlers[1]
           /\ handled[n].batch = handled[1].batch}) = 2

\* ========================================================================
\* Properties of the polling loop and of BaseOwnershipController (Spec)
\* ========================================================================

\* the record _set_base_ownership stores for an event
RecordOf(e) == [faction |-> e.new_faction_id, timestamp |-> e.timestamp]

\* position of the last BaseControl event of evs for server s and base b,
\* 0 if there is none
LastFor(evs, s, b) ==
    LET I == {i \in 1..Len(evs) :
                 /\ evs[i].type = "BaseControl"
                 /\ evs[i].server_id = s
                 /\ evs[i].base_id = b}
    IN  IF I = {} THEN 0 ELSE CHOOSE i \in I : \A j \in I : j <= i

\* the step in which run() dispatches what it has fetched
Dispatches == pc = "fetched" /\ pc' = "sleep"

\* C8: when one poll returns OwnershipChange events for a known server and
\* facility, after the dispatch the facility's record holds the new faction
\* of the event that came last in fetch order.
C8_LastInFetchOrderWins ==
    [][Dispatches =>
        \A s \in DOMAIN _ownership_map : \A b \in BaseIds :
            LastFor(events, s, b) # 0 =>
                /\ b \in DOMAIN _ownership_map'[s]
                /\ _ownership_map'[s][b].faction =
                       events[LastFor(events, s, b)].new_faction_id]_vars

\* one poll returned two events for the same known server and facility with
\* different new factions; after the dispatch the record shows the second
C8_Witness ==
    /\ pc = "sleep"
    /\ Len(events) = 2
    /\ handled # <<>>
    /\ events[1].server_id = events[2].server_id
    /\ events[1].base_id = events[2].base_id
    /\ events[1].new_faction_id # events[2].new_faction_id
    /\ events[1].server_id \in DOMAIN _ownership_map
    /\ events[1].base_id \in DOMAIN _ownership_map[events[1].server_id]
    /\ _ownership_map[events[1].server_id][events[1].base_id].faction =
           events[2].new_faction_id

\* C9: for a known server, applying the same OwnershipChange twice through
\* handle() leaves the map in the state reached after applying it once: the
\* record holds the event's new faction and the second application changes
\* nothing.
C9_DeltaIdempotent ==
    /\ [](\A e \in BaseControl :
            e.server_id \in DOMAIN _ownership_map =>
                LET once == handle(_ownership_map, <<e>>)
                    twice == handle(once, <<e>>)
                IN  /\ twice = once
                    /\ once[e.server_id][e.base_id].faction
                           = e.new_faction_id)
    /\ [][(/\ Dispatches
           /\ \A i \in 1..Len(events) :
                 /\ events[i].server_id \in DOMAIN _ownership_map
                 /\ events[i].base_id
                        \in DOMAIN _ownership_map[events[i].server_id]
                 /\ _ownership_map[events[i].server_id][events[i].base_id]
                        = RecordOf(events[i]))
          => _ownership_map' = _ownership_map]_vars

\* one poll delivered the same event twice for a known server; the record
\* holds its new faction
C9_Witness ==
    /\ pc = "sleep"
    /\ Len(events) = 2
    /\ events[1] = events[2]
    /\ handled # <<>>
    /\ handled[1].batch = events
    /\ events[1].server_id \in DOMAIN _ownership_map
    /\ events[1].base_id \in DOMAIN _ownership_map[events[1].server_id]
    /\ _ownership_map[events[1].server_id][events[1].base_id]
           = RecordOf(events[1])

\* the step in which the _initialize() coroutine t completes
Completes(t) ==
    /\ t \in 1..Len(inits)
    /\ inits[t].pc \in {"meta", "request"}
    /\ t \in 1..Len(inits')
    /\ inits'[t].pc = "done"

\* C10: at the moment a reinitialize() call completes, for every tracked
\* server whose snapshot was loaded successfully during that call, the
\* server's ownership map holds exactly the regions of the snapshot, with the
\* snapshot's factions.
C10_SnapshotReplacesMap ==
    [][\A t \in 1..MaxRunning :
        (Completes(t) /\ inits[t].via = "reinitialize") =>
        \A s \in DOMAIN inits'[t].loaded :
            /\ s \in DOMAIN _ownership_map'
            /\ FactionsOf(_ownership_map'[s]) = inits'[t].loaded[s]]_vars

\* the step in which reinitialize() is called
Reinitializes == inits' = Append(Running, NewInit("reinitialize"))

\* the servers of coroutine c whose snapshot it has not loaded successfully
NotLoaded(c) ==
    {c.servers[n] : n \in 1..Len(c.servers)} \ DOMAIN c.loaded

\* C12: the controller starts bootstrapping (_initializing set); it becomes
\* steady-state only in the step that completes an initialisation which has
\* loaded the snapshot of every tracked server successfully; a reinitialize()
\* call sets _initializing, and it stays set while that call is in progress.
C12_SteadyOnlyAfterFullLoad ==
    /\ _initializing = TRUE
    /\ [][(_initializing /\ ~_initializing') =>
            \E t \in 1..Len(inits) :
                Completes(t) /\ NotLoaded(inits'[t]) = {}]_vars
    /\ [][Reinitializes => _initializing']_vars
    /\ [](\A t \in 1..Len(inits) :
            (inits[t].via = "reinitialize"
                /\ inits[t].pc \in {"meta", "request"}) => _initializing)

\* the step in which coroutine t leaves the await of a snapshot request
LeavesRequest(t) ==
    /\ inits[t].pc = "request"
    /\ ~Reinitializes
    /\ inits'[t].pc # "request" \/ inits'[t].i # inits[t].i

\* C13: whatever the outcome of a server's snapshot request and load, the
\* initialisation goes on: it requests the snapshot of the next tracked
\* server, or, after the last server, it completes.
C13_SnapshotFailureDoesNotAbort ==
    [][\A t \in 1..Len(inits) :
        LeavesRequest(t) =>
            IF inits[t].i < Len(inits[t].servers)
            THEN inits'[t].pc = "request" /\ inits'[t].i = inits[t].i + 1
            ELSE inits'[t].pc = "done"]_vars

\* C14: at the moment an initialisation completes, every event the
\* controller was handed while it was in progress shows in the ownership
\* map: for each tracked server and facility, the record holds the new
\* faction of the last such event.
C14_EventsDuringInitNotLost ==
    [][\A t \in 1..Len(inits) :
        Completes(t) =>
            \A k \in DOMAIN inits[t].delivered :
                k[1] \in DOMAIN _ownership_map' =>
                    /\ k[2] \in DOMAIN _ownership_map'[k[1]]
                    /\ _ownership_map'[k[1]][k[2]].faction
                           = inits[t].delivered[k]]_vars

\* ========================================================================
\* Properties of EventDispatcher.run() (checked under SpecRun and FairRun)
\* ========================================================================
\* the rows of the table a fetch at this moment pops
Old == Popped(buffer, clock - min_age)

\* run() has ended and does nothing more: no fetch, no handle() call
RunEnded == UNCHANGED <<pc, error, events, handled, _ownership_map>>
                /\ Len(buffer') >= Len(buffer)

\* C15: when the fetch of a poll raises, the exception leaves run(): no
\* handler is invoked for that poll, and from then on run() makes no fetch
\* and no handle() call.
C15_FetchFailureStopsLoop ==
    /\ [][(error = "none" /\ error' \in {"fetch", "decode"}) =>
            (pc' = "raised" /\ UNCHANGED <<handled, _ownership_map>>)]_vars
    /\ [][(error \in {"fetch", "decode"}) => RunEnded]_vars

\* the statement of the fetch raised while the table held rows old enough to
\* be fetched; they stay in the table and run() has ended
C15_Witness ==
    /\ error = "fetch"
    /\ pc = "raised"
    /\ Old # <<>>
    /\ _handlers # <<>>

\* C16: when a handle() call raises during a dispatch, the exception leaves
\* _dispatch() and run(): the raising call is the last handle() call run()
\* makes, and run() makes no further fetch.
C16_HandlerErrorPropagates ==
    /\ [][(error = "none" /\ error' = "handler") =>
            /\ pc' = "raised"
            /\ handled' # <<>>
            /\ handled' = SubSeq(Dispatch(_handlers, events), 1,
                                 Len(handled'))]_vars
    /\ [][(error = "handler") => RunEnded]_vars

\* a handle() call raised before the last call of the dispatch: the calls
\* after it were not made and run() has ended
C16_Witness ==
    /\ error = "handler"
    /\ pc = "raised"
    /\ Len(handled) < Len(Dispatch(_handlers, events))

\* C17: when the rows a fetch pops include one that does not decode and one
\* that does, the fetch returns the events of the rows that do decode, in
\* order, and run() goes on to dispatch them.
C17_UndecodableRowSkipped ==
    [][(/\ pc = "sleep"
        /\ _handlers # <<>>
        /\ Len(buffer') < Len(buffer)
        /\ \E n \in 1..Len(Old) : Old[n].type = "undecodable"
        /\ \E n \in 1..Len(Old) : Old[n].type # "undecodable")
       => /\ pc' = "fetched"
          /\ events' = SelectSeq(Old, LAMBDA r : r.type # "undecodable")]_vars

\* number of occurrences of x in the sequence q
Count(q, x) == Cardinality({n \in 1..Len(q) : q[n] = x})

\* the events handed to registration h by the handle() calls
HandedTo(handleCalls, h) ==
    Flatten([n \in 1..Len(handleCalls) |->
                IF handleCalls[n].index = h THEN handleCalls[n].batch
                ELSE <<>>])

\* C18: the rows a fetch returns are removed from the table by that fetch,
\* so no later fetch returns them, and the dispatch of a fetch hands each
\* returned event to each registration of a handler at most once.
C18_FetchedRowsNotRedelivered ==
    /\ [][(pc = "sleep" /\ pc' = "fetched") =>
            \A r \in BufferRows :
                Count(buffer', r) + Count(events', r) = Count(buffer, r)]_vars
    /\ [][(pc = "fetched" /\ pc' # "fetched") =>
            \A h \in 1..Len(_handlers) : \A r \in BufferRows :
                Count(HandedTo(handled', h), r) <= Count(events, r)]_vars

\* two polls have returned rows: the second fetch returned a row while the
\* events of the first were gone from the table
C18_Witness ==
    /\ pc = "sleep"
    /\ handled # <<>>
    /\ events # <<>>
    /\ buffer # <<>>
    /\ \A n \in 1..Len(events) : Count(buffer, events[n]) = 0

\* C20: run() is always asleep, between fetch and dispatch, or ended by an
\* exception, and it has ended only if an exception was raised; a poll
\* dispatches exactly when it fetched events; and as long as nothing raises,
\* every sleep is followed by a fetch and every fetch by the next sleep.
C20_RunNeverReturns ==
    /\ [](pc \in {"sleep", "fetched", "raised"})
    /\ [](pc = "raised" <=> error # "none")
    /\ [][Dispatches =>
            (handled' # <<>> <=> (events # <<>> /\ _handlers # <<>>))]_vars
    /\ (pc = "sleep") ~> (pc = "fetched" \/ error # "none")
    /\ (pc = "fetched") ~> (pc = "sleep" \/ error # "none")

\* run() is in a later iteration: it has dispatched a poll and sleeps again
C20_Witness ==
    /\ pc = "sleep"
    /\ error = "none"
    /\ handled # <<>>
    /\ buffer # <<>>

\* ========================================================================
\* Properties of BaseOwnershipController.handle() (checked under SpecHandle)
\* ========================================================================
\* C11: a handle() call with a batch of OwnershipChange (BaseControl) events
\* whose servers are all absent from the ownership map leaves the map as it
\* was (no server entry created, no record changed) and raises nothing.
C11_UnknownServerIgnored ==
    [][(/\ pc' = "handled"
        /\ events' # <<>>
        /\ \A n \in 1..Len(events') :
              /\ events'[n].type = "BaseControl"
              /\ events'[n].server_id \notin DOMAIN _ownership_map)
       => /\ _ownership_map' = _ownership_map
          /\ error' = "none"]_vars

\* handle() was called with two events of a server the map does not have,
\* while the map holds a record of another server
C11_Witness ==
    /\ pc = "handled"
    /\ Len(events) = 2
    /\ \A n \in 1..Len(events) :
          /\ events[n].type = "BaseControl"
          /\ events[n].server_id \notin DOMAIN _ownership_map
    /\ \E s \in DOMAIN _ownership_map : _ownership_map[s] # EmptyDict

\* C19: a handle() call with an empty batch, or with a batch none of whose
\* events is an OwnershipChange (BaseControl), leaves the ownership map and
\* _initializing as they were and raises nothing.
C19_OtherBatchesIgnored ==
    [][(/\ pc' = "handled"
        /\ \A n \in 1..Len(events') : events'[n].type # "BaseControl")
       => /\ _ownership_map' = _ownership_map
          /\ _initializing' = _initializing
          /\ error' = "none"]_vars

\* handle() was called, in steady state, with a batch of events of another
\* type for a server whose dict holds a record
C19_Witness ==
    /\ pc = "handled"
    /\ events # <<>>
    /\ \A n \in 1..Len(events) : events[n].type = "Event"
    /\ ~_initializing
    /\ events[1].server_id \in DOMAIN _ownership_map
    /\ _ownership_map[events[1].server_id] # EmptyDict

\* ========================================================================
\* Properties of _hexgen.py (checked under SpecHex)
\* ========================================================================
\* the call of tile (u, v) with radius r has returned the point whose x is
\* x2 times sqrt(3)/2 and whose y is y4 times 1/4
MapsTo(u, v, r, x2, y4) ==
    (hex.pc # "call" /\ hex.tile = [u |-> u, v |-> v] /\ hex.radius = r)
        => (hex.pc = "returned" /\ hex.x2 = x2 /\ hex.y4 = y4)

\* C21: _tile_to_point maps tile (u, v) with radius r > 0 to the point
\* (sqrt(3)*r*(u + v/2), 1.5*r*v), so x is r*(2u + v) times sqrt(3)/2 and y
\* is 6*r*v times 1/4; for r = 1 the tiles (0,0), (1,0), (0,1), (1,1) map to
\* (0,0), (sqrt(3),0), (sqrt(3)/2, 1.5), (1.5*sqrt(3), 1.5); a radius <= 0
\* raises ValueError.
C21_TileToPoint ==
    /\ hex.pc \in {"returned", "raised"} =>
          IF hex.radius > 0
          THEN /\ hex.pc = "returned"
               /\ hex.x2 = hex.radius * (2 * hex.tile.u + hex.tile.v)
               /\ hex.y4 = 6 * hex.radius * hex.tile.v
          ELSE hex.pc = "raised"
    /\ \A r \in 1..MaxRadius : MapsTo(0, 0, r, 0, 0)
    /\ MapsTo(1, 0, 1, 2, 0)
    /\ MapsTo(0, 1, 1, 1, 6)
    /\ MapsTo(1, 1, 1, 3, 6)

\* the call for tile (1, 1) with radius 1 has returned
C21_Witness ==
    /\ hex.pc = "returned"
    /\ hex.tile = [u |-> 1, v |-> 1]
    /\ hex.radius = 1

\* ========================================================================
\* Properties of _set_base_ownership (checked under SpecHandle)
\* ========================================================================
\* the step in which handle() is called with one BaseControl event of a
\* server the map has
SingleDelta ==
    /\ pc' = "handled"
    /\ Len(events') = 1
    /\ events'[1].type = "BaseControl"
    /\ events'[1].server_id \in DOMAIN _ownership_map

\* the map handle() found holds a record for the base of event e
HadRecord(map, e) ==
    /\ e.server_id \in DOMAIN map
    /\ e.base_id \in DOMAIN map[e.server_id]

\* C22: applying an OwnershipChange whose new faction equals the faction
\* stored for the facility is skipped as redundant: the record, its
\* last-change timestamp included, is left as it was even when the event's
\* timestamp differs from the stored one.
C22_RedundantDeltaSkipped ==
    [][(/\ SingleDelta
        /\ HadRecord(_ownership_map, events'[1])
        /\ _ownership_map[events'[1].server_id][events'[1].base_id].faction
               = events'[1].new_faction_id)
       => _ownership_map' = _ownership_map]_vars

\* C23: applying an OwnershipChange whose new faction differs from the
\* stored one overwrites the record with the event's new faction and the
\* event's timestamp, also when the event's timestamp is older than the
\* stored last-change timestamp.
C23_OlderEventOverwrites ==
    [][(/\ SingleDelta
        /\ HadRecord(_ownership_map, events'[1])
        /\ _ownership_map[events'[1].server_id][events'[1].base_id].faction
               # events'[1].new_faction_id)
       => /\ HadRecord(_ownership_map', events'[1])
          /\ _ownership_map'[events'[1].server_id][events'[1].base_id]
                 = RecordOf(events'[1])]_vars

\* handle() was called with an event older than the record it found, for
\* another faction; the record is the event's
C23_Witness ==
    /\ pc = "handled"
    /\ Len(events) = 1
    /\ events[1].type = "BaseControl"
    /\ HadRecord(handled[1].before, events[1])
    /\ LET old == handled[1].before[events[1].server_id][events[1].base_id]
       IN  /\ old.faction # events[1].new_faction_id
           /\ old.timestamp > events[1].timestamp
    /\ _ownership_map[events[1].server_id][events[1].base_id]
           = RecordOf(events[1])

\* C28: an OwnershipChange for a facility that has no record, on a server
\* the map has, inserts the record (new faction, timestamp): the event is
\* not dropped.
C28_UnknownFacilityInserted ==
    [][(/\ SingleDelta
        /\ ~HadRecord(_ownership_map, events'[1]))
       => /\ HadRecord(_ownership_map', events'[1])
          /\ _ownership_map'[events'[1].server_id][events'[1].base_id]
                 = RecordOf(events'[1])
          /\ error' = "none"]_vars

\* handle() was called with an event for a facility without a record on a
\* server the map has; the record is the event's
C28_Witness ==
    /\ pc = "handled"
    /\ Len(events) = 1
    /\ events[1].type = "BaseControl"
    /\ events[1].server_id \in DOMAIN handled[1].before
    /\ ~HadRecord(handled[1].before, events[1])
    /\ HadRecord(_ownership_map, events[1])
    /\ _ownership_map[events[1].server_id][events[1].base_id]
           = RecordOf(events[1])

\* ========================================================================
\* Properties of tlru_cache: expiry and concurrent misses (SpecCache)
\* ========================================================================
\* the age, at the time of call i, of the entry the table held for its key
AgeAt(i) ==
    calls[i].now
        - calls[i].table[KeyIndex(calls[i].table, calls[i].key)].last_access

\* C26: a call that finds an entry whose age is at most ttl (age = ttl
\* included) is a hit: the cached value is returned and the wrapped lookup
\* is not invoked; only an age greater than ttl is a miss.
C26_AgeEqualTtlIsHit ==
    \A i \in 1..Len(calls) :
        Contains(calls[i].table, calls[i].key) =>
            /\ AgeAt(i) <= ttl =>
                  /\ calls[i].hit
                  /\ calls[i].value =
                         calls[i].table[KeyIndex(calls[i].table,
                                                 calls[i].key)].value
            /\ AgeAt(i) > ttl => ~calls[i].hit

\* calls i and j are the first two calls for their key, and the miss of i
\* is in flight when j is made
SecondWhileFirstInFlight(i, j) ==
    /\ i < j
    /\ calls[i].key = calls[j].key
    /\ \A m \in 1..(j - 1) : m # i => calls[m].key # calls[i].key
    /\ ~calls[i].hit
    /\ i \notin calls[j].donebefore

\* C27: with maxsize >= 1, when a second caller requests a key while the
\* first caller's miss for that key is in flight, both invoke the wrapped
\* lookup (no coalescing); after both have completed the table holds
\* exactly one entry for that key.
C27_NoCoalescingOneEntry ==
    maxsize >= 1 =>
        \A i \in 1..Len(calls) : \A j \in 1..Len(calls) :
            SecondWhileFirstInFlight(i, j) =>
                /\ ~calls[j].hit
                /\ calls[j].value # calls[i].value
                /\ (calls[i].pc = "returned" /\ calls[j].pc = "returned")
                      => Cardinality({n \in 1..Len(cache) :
                                         cache[n].key = calls[i].key}) = 1

\* ========================================================================
\* Properties of BaseOwnershipController with handle() called during and
\* between initialisations (SpecReload, SpecOverlap)
\* ========================================================================
\* coroutine c is a reinitialize() in flight that has not yet loaded the
\* snapshot of server s
InFlightFor(c, s) ==
    /\ c.via = "reinitialize"
    /\ \/ c.pc = "meta"
       \/ /\ c.pc = "request"
          /\ \E n \in c.i..Len(c.servers) : c.servers[n] = s

\* the last handle() call applied its event to a server the map had, while
\* a reinitialize() that had not yet loaded that server was in flight
DeltaBeforeSnapshot ==
    /\ handled # <<>>
    /\ handled[1].batch[1].server_id \in DOMAIN handled[1].before
    /\ InFlightFor(handled[1].during[1], handled[1].batch[1].server_id)

LoadFails(t, s) ==
    /\ LeavesRequest(t)
    /\ inits'[t].pc # "raised"
    /\ s = inits[t].servers[inits[t].i]
    /\ s \notin DOMAIN inits'[t].loaded

\* C25: when the load of a server's snapshot fails during an
\* initialisation, the server's dict is left empty or as it was: it never
\* holds a part of the failed snapshot's regions.
C25_FailedSnapshotLeavesNoPart ==
    [][\A t \in 1..Len(inits) : \A s \in ServerIds :
        (LoadFails(t, s) /\ s \in DOMAIN _ownership_map')
        => \/ _ownership_map'[s] = EmptyDict
           \/ /\ s \in DOMAIN _ownership_map
              /\ _ownership_map'[s] = _ownership_map[s]]_vars

\* what a step that is not a step of an initialisation leaves of the map:
\* the same servers, and for each server at least the facilities it had
NothingRemoved ==
    /\ DOMAIN _ownership_map' = DOMAIN _ownership_map
    /\ \A s \in DOMAIN _ownership_map :
          DOMAIN _ownership_map[s] \subseteq DOMAIN _ownership_map'[s]

C30_ServersAreTrackedServers ==
    [][\A t \in 1..Len(inits) :
        (Completes(t) /\ inits[t].via = "reinitialize")
        => DOMAIN _ownership_map' =
               {inits'[t].servers[n] : n \in 1..Len(inits'[t].servers)}]_vars

\* ========================================================================
\* Properties of the polling loop: minimum age and delivery (FairPoll)
\* ========================================================================
\* the rows that become older than min_age before the clock of the model
\* stops
AgingRows == {r \in BaseControl : r.timestamp < MaxClock - min_age}

\* row r is in the event buffer table
Buffered(r) == \E n \in 1..Len(buffer) : buffer[n] = r

\* the last poll fetched row r and every registered handler was handed it
DispatchedToAll(r) ==
    /\ pc = "sleep"
    /\ \E n \in 1..Len(events) : events[n] = r
    /\ \A h \in 1..Len(_handlers) : Count(HandedTo(handled, h), r) >= 1

\* C31: a poll fetches exactly the rows older than min_age and leaves the
\* younger rows in the buffer; and as long as run() goes on without an
\* error, every buffered row is eventually fetched and handed to every
\* registered handler.
C31_OldRowsEventuallyDispatched ==
    /\ [][(pc = "sleep" /\ pc' = "fetched") =>
            /\ events' = Popped(buffer, clock - min_age)
            /\ \A n \in 1..Len(events') :
                  events'[n].timestamp < clock - min_age
            /\ buffer' = SelectSeq(buffer,
                   LAMBDA r : r.timestamp >= clock - min_age)]_vars
    /\ \A r \in AgingRows :
          Buffered(r) ~> (error # "none" \/ DispatchedToAll(r))

\* a poll fetched an old row and handed it to two handlers while a younger
\* row stayed in the buffer
C31_Witness ==
    /\ pc = "sleep"
    /\ error = "none"
    /\ Len(_handlers) = 2
    /\ events # <<>>
    /\ \A n \in 1..Len(events) : DispatchedToAll(events[n])
    /\ \E n \in 1..Len(buffer) : buffer[n].timestamp >= clock - min_age

\* ========================================================================
\* Properties of overlapping initialisations (SpecOverlap)
\* ========================================================================
\* C32: the controller is bootstrapping (_initializing is true) whenever at
\* least one initialisation is in progress, also when two of them overlap.
C32_BootstrappingWhileAnyInit ==
    Running # <<>> => _initializing = TRUE

\* ========================================================================
\* Properties of a poll: no row is lost (SpecRun)
\* ========================================================================
\* C33: every row a poll removes from the event buffer is handed to every
\* registered handler in that poll: a fetch that removes rows returns them
\* as events, and the dispatch that follows hands each of them to each
\* handler; a poll that fails leaves the rows it did not deliver in the
\* buffer.
C33_NoRowLost ==
    /\ [][(/\ pc = "sleep"
           /\ _handlers # <<>>
           /\ \E r \in BaseControl : Count(buffer', r) < Count(buffer, r))
          =>
            /\ pc' = "fetched"
            /\ \A r \in BufferRows :
                  Count(events', r) = Count(buffer, r) - Count(buffer', r)]_vars
    /\ [][(pc = "fetched" /\ pc' # "fetched") =>
            \A h \in 1..Len(_handlers) : \A r \in BufferRows :
                Count(HandedTo(handled', h), r) = Count(events, r)]_vars

\* ========================================================================
\* Properties of a dispatch in which a handler raises (SpecRun)
\* ========================================================================
\* C34: when a handler raises on a batch, the dispatch stops there: the
\* handle() calls made are those up to the raising one, so the handlers
\* registered after it do not receive that batch and no handler receives
\* the batches that come after it.
C34_RaiseStopsDispatch ==
    [][(error = "none" /\ error' = "handler") =>
        LET all == Dispatch(_handlers, events)
            k == Len(handled')
        IN  /\ k \in 1..Len(all)
            /\ \A m \in 1..k : handled'[m] = all[m]
            /\ \A n \in (k + 1)..Len(all) : \A m \in 1..k :
                  ~(/\ handled'[m].index = all[n].index
                    /\ handled'[m].batch = all[n].batch)]_vars

\* two handlers, events of two servers: the first handler raised on the
\* first batch, the second handler received nothing and the second batch
\* went to nobody
C34_Witness ==
    /\ error = "handler"
    /\ Len(_handlers) = 2
    /\ Len(Dispatch(_handlers, events)) = 4
    /\ Len(handled) = 1
    /\ handled[1].index = 1

\* ========================================================================
\* Properties of handle() on batches of mixed servers and types (SpecHandle)
\* ========================================================================
\* the BaseControl events of evs
OwnershipChanges(evs) == SelectSeq(evs, LAMBDA e : e.type = "BaseControl")

\* the map has the same servers, and the dicts of the servers other than s
\* are as they were
OnlyServerChanges(s) ==
    /\ DOMAIN _ownership_map' = DOMAIN _ownership_map
    /\ \A x \in DOMAIN _ownership_map :
          x # s => _ownership_map'[x] = _ownership_map[x]

\* C35 as stated: for any batch passed to handle(), only the dict of the
\* first event's server can change; when the first event is a BaseControl
\* every BaseControl event of the batch is applied to the first event's
\* server, and when it is not, nothing is applied.
C35_FirstEventDecides ==
    [][(pc' = "handled" /\ events' # <<>>) =>
        /\ OnlyServerChanges(events'[1].server_id)
        /\ events'[1].type # "BaseControl"
              => _ownership_map' = _ownership_map
        /\ (/\ events'[1].type = "BaseControl"
            /\ events'[1].server_id \in DOMAIN _ownership_map)
              => _ownership_map'[events'[1].server_id] =
                     ApplyEvents(_ownership_map[events'[1].server_id],
                                 OwnershipChanges(events'))]_vars

\* C35 amended: only the dict of the first event's server can change; when
\* the first event is a BaseControl, the events before the first event of
\* another type are applied to the first event's server, whatever their own
\* server; an event of another type raises and the events after it are not
\* applied; when the first event is not a BaseControl nothing is applied
\* and nothing raises.
C35_FirstEventDecidesUntilRaise ==
    [][(pc' = "handled" /\ events' # <<>>) =>
        /\ OnlyServerChanges(events'[1].server_id)
        /\ events'[1].type # "BaseControl"
              => (_ownership_map' = _ownership_map /\ error' = "none")
        /\ (/\ events'[1].type = "BaseControl"
            /\ events'[1].server_id \in DOMAIN _ownership_map)
              => /\ _ownership_map'[events'[1].server_id] =
                        ApplyEvents(_ownership_map[events'[1].server_id],
                                    BaseControlPrefix(events'))
                 /\ error' = "handler"
                        <=> BaseControlPrefix(events') # events']_vars

\* handle() was called with a BaseControl of a known server, an event of
\* another type and a BaseControl of another server and faction: it raised
\* at the second event, and the record is the first event's
C35_Witness ==
    /\ pc = "handled"
    /\ error = "handler"
    /\ Len(events) = 3
    /\ events[1].type = "BaseControl"
    /\ events[2].type = "Event"
    /\ events[3].type = "BaseControl"
    /\ events[3].server_id # events[1].server_id
    /\ events[3].new_faction_id # events[1].new_faction_id
    /\ events[1].server_id \in DOMAIN _ownership_map
    /\ events[3].server_id \in DOMAIN _ownership_map
    /\ _ownership_map[events[1].server_id][events[1].base_id]
           = RecordOf(events[1])
    /\ _ownership_map[events[3].server_id]
           = handled[1].before[events[3].server_id]

\* ========================================================================
\* Properties of the key of tlru_cache.wrapper (SpecKey)
\* ========================================================================
\* C36 as stated: a call with hashable arguments fails only if the wrapped
\* lookup fails: building the key and looking it up never raises, so each
\* call gets to invoke the wrapped lookup, with and without keyword
\* arguments.
C36_KeyLookupNeverRaises ==
    \A i \in 1..Len(calls) :
        (\A n \in 1..Len(calls[i].args) : Hashable(calls[i].args[n]))
            => (calls[i].invoked /\ calls[i].error = "none")

\* ========================================================================
\* Properties of main() (SpecMain, FairMain)
\* ========================================================================
\* C37: whenever run() ends by an exception, cancellation and interrupt
\* included, main() goes on to return: the exception is logged and does not
\* leave main(), and by the time main() has returned pool.close() has been
\* called exactly once (and never more than once).
C37_PoolClosedOnceAndLogged ==
    /\ [](main.closed <= 1)
    /\ [](main.pc # "propagated")
    /\ [](main.pc = "returned" =>
            (main.closed = 1 /\ main.logged = <<error>>))
    /\ (error # "none") ~> (main.pc = "returned")

\* run() was cancelled; main() has logged the CancelledError, closed the
\* pool once and returned
C37_Witness ==
    /\ error = "CancelledError"
    /\ main.pc = "returned"
    /\ main.logged = <<"CancelledError">>
    /\ main.closed = 1

\* ========================================================================
\* Properties of controller/_map.py and controller/_server.py
\* (SpecContinent, SpecServer, SpecGroup)
\* ========================================================================
\* the last of the blips for base b
LastBlipOf(blips, b) ==
    LET about == SelectSeq(blips, LAMBDA x : x.base_id = b)
    IN  about[Len(about)]

\* C38 as stated: process_base_control_blips raises for no base or faction
\* without an entry, and after it the stored owner of every blipped base is
\* the new faction of the last blip of the base.
C38_OwnerIsLastBlipsFaction ==
    call.pc \in {"returned", "raised"} =>
        /\ call.pc = "returned"
        /\ \A n \in 1..Len(call.blips) :
              /\ call.blips[n].base_id \in DOMAIN _base_owners
              /\ _base_owners[call.blips[n].base_id] =
                    LastBlipOf(call.blips, call.blips[n].base_id).new_faction_id

\* the callback c is in the list seq
Holds(seq, c) == \E n \in 1..Len(seq) : seq[n] = c

\* C39 as stated: once BackendServer is constructed, blip_listeners holds
\* the dispatch_base_control of every map handler under BaseControl and the
\* dispatch_player_blips of every map handler under PlayerBlip, whether or
\* not the types had an entry before; a later fetch_blips schedules them.
C39_EveryHandlerRegistered ==
    call.pc \in {"constructed", "fetched"} =>
        \A h \in call.map_handlers : \A type \in ListenerTypes :
            /\ type \in DOMAIN blip_listeners
            /\ Holds(blip_listeners[type], Callback(h, MethodFor(type)))
            /\ call.pc = "fetched" =>
                  Holds(call.scheduled, Callback(h, MethodFor(type)))

\* C40 as stated: _group_blips returns a dict whose keys are the handler's
\* continents, and the value of a continent is the list, in input order, of
\* the input blips of that continent and of the handler's server; blips of
\* other servers are in no group.
C40_GroupedByContinent ==
    call.pc \in {"returned", "raised"} =>
        /\ call.pc = "returned"
        /\ DOMAIN call.grouped = call.continents
        /\ \A i \in call.continents :
              call.grouped[i] =
                  SelectSeq(call.blips, LAMBDA b :
                      b.continent_id = i /\ b.server_id = call.server_id)

====
